---- MODULE Spec2Model ----
(***************************************************************************)
(* WakeBot: the clap event detector (src/src/clap_detector.py) and the     *)
(* calibration tool (src/calibrate.py).                                    *)
(*                                                                         *)
(* Time is counted in milliseconds.  The detector keeps its durations in   *)
(* seconds (double_clap_window_ms / 1000.0, 0.1, 1.5) and compares them    *)
(* with differences of time.time(); the model keeps the same quantities in *)
(* milliseconds, so 0.1 s is 100 and 1.5 s is 1500.                        *)
(*                                                                         *)
(* An Optional[float] is a sequence of length 0 (None) or 1 (the value).   *)
(***************************************************************************)
EXTENDS Integers, Sequences, FiniteSets, TLC

VARIABLES
    threshold,            \* self.threshold
    double_clap_window,   \* self.double_clap_window (ms)
    last_clap_time,       \* self.last_clap_time: Optional
    last_action_time,     \* self.last_action_time
    is_above_threshold,   \* self.is_above_threshold
    pending_single,       \* self.pending_single
    now,                  \* the wall clock: time.time() of the latest call
    called,               \* process has been called at least once
    rms_in,               \* the argument of the latest call of process
    prev_rms,             \* the argument of the call before it (<<>>: none)
    result,               \* what the latest call of process returned
    pre,                  \* the detector's fields as the latest call found them
    prev_event_time,      \* time of the latest event emitted before the latest call
    first_edge_time,      \* time of the first edge of the pending clap (<<>>: none pending)
    last_edge_time,       \* time of the latest call that took the rising-edge branch
    prev_edge_time,       \* last_edge_time as the latest call found it
    run_edges,            \* rising edges detected in the current run of samples > threshold
    unused_edges          \* rising edges detected minus 2 per DOUBLE and 1 per SINGLE (counted up to MaxUnusedEdges)

vars == <<threshold, double_clap_window, last_clap_time, last_action_time,
          is_above_threshold, pending_single, now, called, rms_in, prev_rms,
          result, pre, prev_event_time, first_edge_time, last_edge_time,
          prev_edge_time, run_edges, unused_edges>>

----------------------------------------------------------------------------
(* Bounds of the model *)

\* the clock runs for at most MaxTime milliseconds after the first reading
MaxTime == 2200

\* rising edges that are not part of an event are counted up to this number
MaxUnusedEdges == 2

\* the claps an event stands for
EdgesUsed(ret) ==
    IF ret = "DOUBLE" THEN 2 ELSE IF ret = "SINGLE" THEN 1 ELSE 0

\* the clock advances between two calls of process by one of these amounts
Steps == {0, 50, 100, 400, 1500}

\* the thresholds and windows a configuration file may supply
Thresholds == {0, 3000}
Windows == {0, 500}

\* the loudness values fed to the detector
RmsValues == {0, 3001}

----------------------------------------------------------------------------
(* Program constants *)

MinClapGap == 100
ActionCooldown == 1500
InitialLastActionTime == 0

\* time.time() counts from the epoch: the first reading is far beyond the
\* cooldown measured from last_action_time = 0
ClockStart == InitialLastActionTime + ActionCooldown

None == <<>>
Some(x) == <<x>>
Val(o) == o[1]

NoEvent == "None"
EventTags == {"SINGLE", "DOUBLE"}

----------------------------------------------------------------------------
(* ClapDetector *)

\* the detector's fields as one record
Self ==
    [threshold |-> threshold,
     double_clap_window |-> double_clap_window,
     last_clap_time |-> last_clap_time,
     last_action_time |-> last_action_time,
     is_above_threshold |-> is_above_threshold,
     pending_single |-> pending_single]

\* ClapDetector.__init__
NewDetector(thr, window_ms) ==
    [threshold |-> thr,
     double_clap_window |-> window_ms,
     last_clap_time |-> None,
     last_action_time |-> InitialLastActionTime,
     is_above_threshold |-> FALSE,
     pending_single |-> FALSE]

\* InCooldown without the cooldown check
InCooldown_Never(self, current_time) ==
    FALSE

\* InCooldown with half the cooldown
InCooldown_HalfTime(self, current_time) ==
    (current_time - self.last_action_time) * 2 < ActionCooldown

\* current_time - self.last_action_time < self.action_cooldown
InCooldown(self, current_time) ==
    (current_time - self.last_action_time) < ActionCooldown

\* the pending single clap has timed out
SingleTimedOut(self, current_time) ==
    /\ self.pending_single
    /\ self.last_clap_time # None
    /\ (current_time - Val(self.last_clap_time)) > self.double_clap_window

\* ValidSecondClap with the window's upper bound excluded
ValidSecondClap_StrictWindow(self, current_time) ==
    /\ self.pending_single
    /\ self.last_clap_time # None
    /\ LET time_since_last == current_time - Val(self.last_clap_time)
       IN  /\ time_since_last >= MinClapGap
           /\ time_since_last < self.double_clap_window

\* ValidSecondClap without the minimum gap
ValidSecondClap_NoMinGap(self, current_time) ==
    /\ self.pending_single
    /\ self.last_clap_time # None
    /\ LET time_since_last == current_time - Val(self.last_clap_time)
       IN  time_since_last <= self.double_clap_window

\* the rising edge is a valid second clap
ValidSecondClap(self, current_time) ==
    /\ self.pending_single
    /\ self.last_clap_time # None
    /\ LET time_since_last == current_time - Val(self.last_clap_time)
       IN  /\ time_since_last >= MinClapGap
           /\ time_since_last <= self.double_clap_window

\* ConfirmSingle that also takes the call's time as a new clap time
ConfirmSingle_RecordsClap(self, current_time) ==
    [ret |-> "SINGLE", edge |-> FALSE,
     self |-> [self EXCEPT !.pending_single = FALSE,
                           !.last_clap_time = Some(current_time),
                           !.last_action_time = current_time]]

\* ConfirmSingle that does not start the cooldown
ConfirmSingle_KeepsActionTime(self, current_time) ==
    [ret |-> "SINGLE", edge |-> FALSE,
     self |-> [self EXCEPT !.pending_single = FALSE]]

\* ConfirmSingle that also takes the level for above the threshold
ConfirmSingle_Disarms(self, current_time) ==
    [ret |-> "SINGLE", edge |-> FALSE,
     self |-> [self EXCEPT !.pending_single = FALSE,
                           !.is_above_threshold = TRUE,
                           !.last_action_time = current_time]]

\* single clap confirmed
ConfirmSingle(self, current_time) ==
    [ret |-> "SINGLE", edge |-> FALSE,
     self |-> [self EXCEPT !.pending_single = FALSE,
                           !.last_action_time = current_time]]

\* ConfirmDouble that updates the fields and falls through to the final
\* return None
ConfirmDouble_NoReturn(self, current_time) ==
    [ret |-> NoEvent, edge |-> TRUE,
     self |-> [self EXCEPT !.pending_single = FALSE,
                           !.last_clap_time = Some(current_time),
                           !.last_action_time = current_time]]

\* ConfirmDouble that leaves the second clap pending as a first clap
ConfirmDouble_KeepsPending(self, current_time) ==
    [ret |-> "DOUBLE", edge |-> TRUE,
     self |-> [self EXCEPT !.last_clap_time = Some(current_time),
                           !.last_action_time = current_time]]

\* double clap detected
ConfirmDouble(self, current_time) ==
    [ret |-> "DOUBLE", edge |-> TRUE,
     self |-> [self EXCEPT !.pending_single = FALSE,
                           !.last_clap_time = Some(current_time),
                           !.last_action_time = current_time]]

\* FirstClap that also starts the cooldown
FirstClap_StartsCooldown(self, current_time) ==
    [ret |-> NoEvent, edge |-> TRUE,
     self |-> [self EXCEPT !.last_clap_time = Some(current_time),
                           !.last_action_time = current_time,
                           !.pending_single = TRUE]]

\* first clap: wait for a potential second clap
FirstClap(self, current_time) ==
    [ret |-> NoEvent, edge |-> TRUE,
     self |-> [self EXCEPT !.last_clap_time = Some(current_time),
                           !.pending_single = TRUE]]

\* rising edge: a new clap
RisingEdge(self, current_time) ==
    LET armed == [self EXCEPT !.is_above_threshold = TRUE]
    IN  IF ValidSecondClap(armed, current_time)
        THEN ConfirmDouble(armed, current_time)
        ELSE FirstClap(armed, current_time)

\* BelowThreshold that leaves is_above_threshold as it is
BelowThreshold_NoReset(self) ==
    [ret |-> NoEvent, edge |-> FALSE, self |-> self]

\* below threshold: reset for the next detection
BelowThreshold(self) ==
    [ret |-> NoEvent, edge |-> FALSE,
     self |-> [self EXCEPT !.is_above_threshold = FALSE]]

\* Armed that takes every sample above the threshold for a rising edge
Armed_Always(self) ==
    TRUE

\* not self.is_above_threshold: the next sample above the threshold is a
\* rising edge
Armed(self) ==
    ~self.is_above_threshold

\* a call that returns None and changes nothing
Unchanged(self) ==
    [ret |-> NoEvent, edge |-> FALSE, self |-> self]

\* process that follows the level of the sample during the cooldown
process_TracksLevelInCooldown(self, rms, current_time) ==
    IF InCooldown(self, current_time)
    THEN [ret |-> NoEvent, edge |-> FALSE,
          self |-> [self EXCEPT !.is_above_threshold = (rms > self.threshold)]]
    ELSE IF SingleTimedOut(self, current_time)
    THEN ConfirmSingle(self, current_time)
    ELSE IF rms > self.threshold
    THEN IF Armed(self)
         THEN RisingEdge(self, current_time)
         ELSE Unchanged(self)
    ELSE BelowThreshold(self)

\* ClapDetector.process, with the reading of time.time() as a parameter.
\* ret is the value returned, self the fields afterwards, and edge tells
\* whether the call took the rising-edge branch.
process(self, rms, current_time) ==
    IF InCooldown(self, current_time)
    THEN Unchanged(self)
    ELSE IF SingleTimedOut(self, current_time)
    THEN ConfirmSingle(self, current_time)
    ELSE IF rms > self.threshold
    THEN IF Armed(self)
         THEN RisingEdge(self, current_time)
         ELSE Unchanged(self)
    ELSE BelowThreshold(self)

----------------------------------------------------------------------------
(* The state of the calibration tool (src/calibrate.py) *)

VARIABLES
    peak_rms_values,      \* detect_claps: the argument rms_values
    peak_timestamps,      \* detect_claps: the argument timestamps (ms)
    peak_threshold,       \* detect_claps: the argument threshold_preview
    peak_claps,           \* what detect_claps returned (<<>>: not called yet)
    mic_test_max_rms,     \* main: the loudest chunk of the microphone test
    stream_rms,           \* the loudness of the chunks the microphone delivers
    stream_time,          \* the time (ms after start_time) each chunk is read at
    cal_pc,               \* main: "idle", "recording", "analysis" or "done"
    rec,                  \* main: the locals of the recording loop
    sample_count,         \* main: sample_count, the samples recorded so far
    report                \* main: what the analysis reported (<<>>: nothing yet)

peakvars == <<peak_rms_values, peak_timestamps, peak_threshold, peak_claps>>

calvars == <<mic_test_max_rms, stream_rms, stream_time, cal_pc, rec,
             sample_count, report>>

\* detect_claps is not in use
PeakIdle ==
    /\ peak_rms_values = <<>>
    /\ peak_timestamps = <<>>
    /\ peak_threshold = 0
    /\ peak_claps = <<>>

\* the calibration tool is not running
CalIdle ==
    /\ mic_test_max_rms = 0
    /\ stream_rms = <<>>
    /\ stream_time = <<>>
    /\ cal_pc = "idle"
    /\ rec = <<>>
    /\ sample_count = 0
    /\ report = <<>>


----------------------------------------------------------------------------
(* The state of the main loop (src/main.py) *)

VARIABLES
    main_pc,              \* main: "idle", "loop" or "stopped"
    consecutive_errors,   \* main: consecutive_errors
    action,               \* main: what clap_detector.process returned last
    iteration,            \* how the latest iteration ended: "none", "success" or "failed"
    wake_screen_calls,    \* calls of actions.wake_screen the latest iteration completed
    lock_screen_calls,    \* calls of actions.lock_screen the latest iteration completed
    restart_attempted,    \* the latest iteration called audio_engine.restart_stream
    raised_by,            \* the call that raised in the latest iteration ("none": no call did)
    restart_ok            \* what restart_stream returned if the latest iteration called it

mainvars == <<main_pc, consecutive_errors, action, iteration,
              wake_screen_calls, lock_screen_calls, restart_attempted,
              raised_by, restart_ok>>

\* the main loop is not running
MainIdle ==
    /\ main_pc = "idle"
    /\ consecutive_errors = 0
    /\ action = NoEvent
    /\ iteration = "none"
    /\ wake_screen_calls = 0
    /\ lock_screen_calls = 0
    /\ restart_attempted = FALSE
    /\ raised_by = "none"
    /\ restart_ok = FALSE

----------------------------------------------------------------------------
(* The state of an AudioStream (src/src/audio_engine.py) and of a program
   that owns one *)

VARIABLES
    audio_pyaudio,        \* self.pyaudio_instance: <<>> (None) or <<"PyAudio">>
    audio_stream,         \* self.stream: <<>> (None), <<"open">> or <<"closed">>
    audio_call,           \* the method called last ("none": no call yet)
    audio_result,         \* what it returned: "True", "False", "None", "data" or "raised"
    audio_pre,            \* the fields as the latest call found them
    audio_calls,          \* the number of calls made so far
    audio_stopped,        \* stop_stream was the latest call that changed the fields
    exit_prog,            \* the entry point running: "none", "main" or "calibrate"
    exit_pc,              \* where it is
    exit_started,         \* start_stream has returned True
    exit_stops,           \* calls of stop_stream since then
    exit_samples,         \* calibrate: len(rms_values)
    exit_cause            \* how the program was left ("running": it has not been)

audiovars == <<audio_pyaudio, audio_stream, audio_call, audio_result,
               audio_pre, audio_calls, audio_stopped>>

exitvars == <<exit_prog, exit_pc, exit_started, exit_stops, exit_samples,
              exit_cause>>

\* AudioStream.__init__
NewAudioStream == [pyaudio_instance |-> None, stream |-> None]

\* no AudioStream is in use
AudioIdle ==
    /\ audio_pyaudio = None
    /\ audio_stream = None
    /\ audio_call = "none"
    /\ audio_result = "None"
    /\ audio_pre = NewAudioStream
    /\ audio_calls = 0
    /\ audio_stopped = FALSE

\* no entry point is running
ExitIdle ==
    /\ exit_prog = "none"
    /\ exit_pc = "idle"
    /\ exit_started = FALSE
    /\ exit_stops = 0
    /\ exit_samples = 0
    /\ exit_cause = "running"

----------------------------------------------------------------------------
(* The detector fed one sample per call, the clock never running backwards *)

Init ==
    /\ \E thr \in Thresholds, w \in Windows :
          LET d == NewDetector(thr, w)
          IN  /\ threshold = d.threshold
              /\ double_clap_window = d.double_clap_window
              /\ last_clap_time = d.last_clap_time
              /\ last_action_time = d.last_action_time
              /\ is_above_threshold = d.is_above_threshold
              /\ pending_single = d.pending_single
              /\ pre = d
    /\ now = ClockStart
    /\ called = FALSE
    /\ rms_in = 0
    /\ prev_rms = None
    /\ result = NoEvent
    /\ prev_event_time = None
    /\ first_edge_time = None
    /\ last_edge_time = None
    /\ prev_edge_time = None
    /\ run_edges = 0
    /\ unused_edges = 0
    /\ PeakIdle
    /\ CalIdle
    /\ MainIdle
    /\ AudioIdle
    /\ ExitIdle

\* one call of clap_detector.process(rms), dt milliseconds after the last one
Process(rms, dt) ==
    /\ now + dt <= ClockStart + MaxTime
    /\ LET current_time == now + dt
           out == process(Self, rms, current_time)
       IN  /\ now' = current_time
           /\ threshold' = out.self.threshold
           /\ double_clap_window' = out.self.double_clap_window
           /\ last_clap_time' = out.self.last_clap_time
           /\ last_action_time' = out.self.last_action_time
           /\ is_above_threshold' = out.self.is_above_threshold
           /\ pending_single' = out.self.pending_single
           /\ result' = out.ret
           /\ called' = TRUE
           /\ rms_in' = rms
           /\ prev_rms' = IF called THEN Some(rms_in) ELSE None
           /\ pre' = Self
           /\ prev_event_time' =
                 IF result \in EventTags THEN Some(now) ELSE prev_event_time
           /\ first_edge_time' =
                 IF ~out.self.pending_single THEN None
                 ELSE IF ~pending_single THEN Some(current_time)
                 ELSE first_edge_time
           /\ last_edge_time' =
                 IF out.edge THEN Some(current_time) ELSE last_edge_time
           /\ prev_edge_time' = last_edge_time
           /\ run_edges' =
                 IF rms > threshold
                 THEN (IF called /\ rms_in > threshold THEN run_edges ELSE 0)
                      + (IF out.edge THEN 1 ELSE 0)
                 ELSE 0
           /\ unused_edges' =
                 LET found == unused_edges + (IF out.edge THEN 1 ELSE 0)
                 IN  (IF found <= MaxUnusedEdges THEN found
                      ELSE MaxUnusedEdges) - EdgesUsed(out.ret)
    /\ UNCHANGED <<peakvars, calvars, audiovars, exitvars>>

Next ==
    \E rms \in RmsValues, dt \in Steps :
        Process(rms, dt) /\ UNCHANGED mainvars

Spec == Init /\ [][Next]_vars

----------------------------------------------------------------------------
(* What the latest call was given and did *)

\* the detector has the positive threshold and window the specification's
\* configure asks for
ValidConfiguration == threshold > 0 /\ double_clap_window > 0

\* the latest sample is strictly above the threshold
Above == rms_in > threshold

\* the input rose: the latest sample is strictly above the threshold and
\* the sample before it (if any) was at or below it
InputEdge ==
    /\ called
    /\ Above
    /\ (prev_rms = None \/ Val(prev_rms) <= threshold)

\* the latest call found a pending first clap
WasPending == called /\ pre.pending_single /\ pre.last_clap_time # None

\* time between the pending first clap and the latest call
SinceClap == now - Val(pre.last_clap_time)

\* the latest call came before the cooldown of the last action was over
WasInCooldown == called /\ now - pre.last_action_time < ActionCooldown

----------------------------------------------------------------------------
(* C1 *)

\* C1: any two calls that return an event (SINGLE or DOUBLE) are at least
\* ActionCooldown apart: a call that returns an event comes at least
\* ActionCooldown after the latest event before it.
C1_CooldownBetweenEvents ==
    (called /\ result \in EventTags /\ prev_event_time # None)
        => now - Val(prev_event_time) >= ActionCooldown

\* a second event as soon after the first one as the detector allows
C1_Witness ==
    /\ called
    /\ result \in EventTags
    /\ prev_event_time # None
    /\ now - Val(prev_event_time) < ActionCooldown + MinClapGap

----------------------------------------------------------------------------
(* C2 *)

\* C2: when a first clap is pending since t1 and the next rising edge of
\* the input is processed at t2, the call returns DOUBLE if and only if
\* MinClapGap <= t2 - t1 <= double_clap_window, both bounds included.
C2_DoubleIffInWindow ==
    (WasPending /\ InputEdge)
        => (result = "DOUBLE"
              <=> (SinceClap >= MinClapGap /\ SinceClap <= pre.double_clap_window))

\* a DOUBLE for a second edge exactly double_clap_window after the first
C2_Witness ==
    /\ WasPending
    /\ InputEdge
    /\ result = "DOUBLE"
    /\ SinceClap = pre.double_clap_window
    /\ SinceClap > MinClapGap

----------------------------------------------------------------------------
(* C3 *)

----------------------------------------------------------------------------
(* C4 *)

\* C4, for a valid configuration: an edge less than MinClapGap after a pending first clap gives no
\* DOUBLE and does not restart the pending window: no call later than
\* double_clap_window after the first edge leaves the clap pending (that
\* call emits its SINGLE).
C4_WindowFromFirstEdge ==
    /\ (WasPending /\ InputEdge /\ SinceClap < MinClapGap) => result # "DOUBLE"
    /\ (ValidConfiguration /\ called /\ pending_single /\ first_edge_time # None)
          => now - Val(first_edge_time) <= double_clap_window

----------------------------------------------------------------------------
(* C5 *)

\* C5 as stated, for a valid configuration: a run of samples strictly above the threshold, started
\* after a sample at or below it or at the start of the stream, has
\* produced exactly one rising-edge detection, however long it is.
C5_ExactlyOneEdgePerRun ==
    (ValidConfiguration /\ called /\ Above) => run_edges = 1

\* C5 as the code has it: such a run produces at most one rising-edge
\* detection, and exactly one when its first sample is processed outside
\* the cooldown, emits no SINGLE and finds the detector re-armed.
C5_AtMostOneEdgePerRun ==
    /\ (called /\ Above) => run_edges <= 1
    /\ (InputEdge /\ ~WasInCooldown /\ result # "SINGLE"
          /\ ~pre.is_above_threshold) => run_edges = 1

\* the second sample (at least) of a run, after the run's one detection
C5_Witness ==
    /\ called
    /\ Above
    /\ prev_rms # None
    /\ Val(prev_rms) > threshold
    /\ ~WasInCooldown
    /\ result = NoEvent
    /\ run_edges = 1

----------------------------------------------------------------------------
(* C6 *)

\* C6: a call that returns DOUBLE at t found pending_single true and
\* last_clap_time holding the time t' of the latest detected rising edge,
\* with MinClapGap <= t - t' <= double_clap_window, and no event was
\* emitted between t' and t.
C6_DoubleNeedsFirstClap ==
    (called /\ result = "DOUBLE")
        => /\ pre.pending_single
           /\ pre.last_clap_time # None
           /\ pre.last_clap_time = prev_edge_time
           /\ SinceClap >= MinClapGap
           /\ SinceClap <= pre.double_clap_window
           /\ (prev_event_time # None
                 => Val(prev_event_time) <= Val(pre.last_clap_time))

\* a DOUBLE whose first clap came after an earlier event
C6_Witness ==
    /\ called
    /\ result = "DOUBLE"
    /\ prev_event_time # None
    /\ SinceClap = MinClapGap

----------------------------------------------------------------------------
(* C7 *)

\* C7: a call that finds pending_single true more than double_clap_window
\* after last_clap_time returns SINGLE whatever the sample is, clears
\* pending_single and sets last_action_time to the time of the call.
C7_PendingSingleResolved ==
    /\ (called /\ pre.pending_single) => pre.last_clap_time # None
    /\ (WasPending /\ SinceClap > pre.double_clap_window)
          => /\ result = "SINGLE"
             /\ ~pending_single
             /\ last_action_time = now

\* a pending single resolved by a call after an earlier event
C7_Witness ==
    /\ WasPending
    /\ SinceClap > pre.double_clap_window
    /\ prev_event_time # None
    /\ ~Above
    /\ result = "SINGLE"

----------------------------------------------------------------------------
(* C8 *)

\* C8 as stated, for a valid configuration: after any call with a value at or below the threshold,
\* is_above_threshold is false.
C8_BelowAlwaysRearms ==
    (ValidConfiguration /\ called /\ ~Above) => ~is_above_threshold

\* C8 as the code has it: after a call with a value at or below the
\* threshold that is outside the cooldown and emits no SINGLE,
\* is_above_threshold is false; and a sample strictly above the threshold
\* that such a call (outside the cooldown, no SINGLE) finds with
\* is_above_threshold false is detected as a rising edge.
C8_BelowRearmsWhenProcessed ==
    /\ (called /\ ~Above /\ ~WasInCooldown /\ result # "SINGLE")
          => ~is_above_threshold
    /\ (called /\ Above /\ ~WasInCooldown /\ result # "SINGLE"
          /\ ~pre.is_above_threshold)
          => /\ is_above_threshold
             /\ last_edge_time = Some(now)

\* a sample at or below the threshold re-arming the detector
C8_Witness ==
    /\ called
    /\ ~Above
    /\ ~WasInCooldown
    /\ result # "SINGLE"
    /\ pre.is_above_threshold
    /\ ~is_above_threshold

----------------------------------------------------------------------------
(* C9 *)

\* C9: no detector with a non-positive threshold or a non-positive
\* duration ever processes a sample.
C9_InvalidConfigurationRejected ==
    called => /\ threshold > 0
              /\ double_clap_window > 0
              /\ MinClapGap > 0
              /\ ActionCooldown > 0

----------------------------------------------------------------------------
(* C10 *)

\* C10: in every reachable state and for every loudness value process
\* returns one of None, SINGLE, DOUBLE, and a call emits at most one event:
\* last_action_time moves (to the time of the call) exactly when the call
\* returns an event, and pending_single is cleared only by such a call.
C10_ProcessTotal ==
    /\ \A rms \in RmsValues, dt \in Steps :
          process(Self, rms, now + dt).ret \in {NoEvent} \cup EventTags
    /\ result \in {NoEvent} \cup EventTags
    /\ called =>
          /\ (result \in EventTags <=> last_action_time # pre.last_action_time)
          /\ result \in EventTags => last_action_time = now
          /\ (pre.pending_single /\ ~pending_single) => result \in EventTags

\* a DOUBLE returned while the input was at its second rising edge
C10_Witness ==
    /\ called
    /\ InputEdge
    /\ result = "DOUBLE"

----------------------------------------------------------------------------
(* C11 *)

\* C11: last_action_time never decreases, and a call changes it only when
\* it returns an event, and then to the time of the call.
C11_LastActionTimeMonotone ==
    called =>
        /\ last_action_time >= pre.last_action_time
        /\ last_action_time # pre.last_action_time
              => (result \in EventTags /\ last_action_time = now)
        /\ last_action_time <= now

\* a second event moving last_action_time forward from the first event's time
C11_Witness ==
    /\ called
    /\ result \in EventTags
    /\ prev_event_time # None
    /\ pre.last_action_time = Val(prev_event_time)
    /\ last_action_time = now
    /\ last_action_time > pre.last_action_time

----------------------------------------------------------------------------
(***************************************************************************)
(* The calibration tool (src/calibrate.py).                                *)
(*                                                                         *)
(* Loudness values are integers and times are milliseconds since the       *)
(* recording started, so 0.3 s is 300 and 10 s is 10000.  The tool's       *)
(* products with decimal factors (0.6, 1.15, ...) are kept exact: a        *)
(* product that is truncated by int() is an integer division, and one that *)
(* is only compared is a fraction [n, d] in lowest terms.                  *)
(***************************************************************************)

Max2(a, b) == IF a >= b THEN a ELSE b
Min2(a, b) == IF a <= b THEN a ELSE b
Max3(a, b, c) == Max2(Max2(a, b), c)

SetMax(S) == CHOOSE x \in S : \A y \in S : y <= x
SetMin(S) == CHOOSE x \in S : \A y \in S : x <= y

\* sum(s[lo..hi]), by halving
RECURSIVE SumRange(_, _, _)
SumRange(s, lo, hi) ==
    IF lo > hi THEN 0
    ELSE IF lo = hi THEN s[lo]
    ELSE LET mid == (lo + hi) \div 2
         IN  SumRange(s, lo, mid) + SumRange(s, mid + 1, hi)

Sum(s) == SumRange(s, 1, Len(s))

\* max(s) of a non-empty list
SeqMax(s) == SetMax({s[i] : i \in 1..Len(s)})

----------------------------------------------------------------------------
(* detect_claps *)

\* window_size: samples looked at on each side of a candidate
WindowSize == 5

\* a list shorter than this has no peaks
MinDetectLen == 10

\* minimum time between two accepted peaks (0.3 s)
PeakGap == 300

\* a clap is the tuple (timestamp, rms)
ClapTime(c) == c[1]
ClapRms(c) == c[2]

\* sample i is above the threshold and no other sample of
\* range(i - window_size, i + window_size + 1) reaches it
IsPeak(rms_values, threshold_preview, i) ==
    /\ rms_values[i] > threshold_preview
    /\ \A j \in (i - WindowSize)..(i + WindowSize) :
           j # i => ~(rms_values[j] >= rms_values[i])

\* a peak is kept when it is the first or comes more than 0.3 s after the
\* last one kept
AcceptPeak_AtGap(claps, t) ==
    claps = <<>> \/ t - ClapTime(claps[Len(claps)]) >= PeakGap

AcceptPeak(claps, t) ==
    claps = <<>> \/ t - ClapTime(claps[Len(claps)]) > PeakGap

\* the indices the loop visits: range(window_size, len - window_size),
\* counted from 1
LoopIndices(rms_values) ==
    (WindowSize + 1)..(Len(rms_values) - WindowSize)

\* the loop from index i on with the claps kept so far; iterations over
\* samples that are no peak change nothing and are passed over
RECURSIVE DetectLoop(_, _, _, _, _)
DetectLoop(rms_values, timestamps, threshold_preview, i, claps) ==
    LET rest == {k \in LoopIndices(rms_values) :
                    k >= i /\ IsPeak(rms_values, threshold_preview, k)}
    IN  IF rest = {} THEN claps
        ELSE LET k == SetMin(rest)
             IN  DetectLoop(rms_values, timestamps, threshold_preview, k + 1,
                     IF AcceptPeak(claps, timestamps[k])
                     THEN Append(claps, <<timestamps[k], rms_values[k]>>)
                     ELSE claps)

detect_claps(rms_values, timestamps, threshold_preview) ==
    IF Len(rms_values) < MinDetectLen THEN <<>>
    ELSE DetectLoop(rms_values, timestamps, threshold_preview, 1, <<>>)

----------------------------------------------------------------------------
(* detect_claps applied to bounded recordings *)

\* lengths of the recordings handed to detect_claps
PeakLens == {9, 10, 11, 17, 23}

\* the time between two samples of a recording (the loop sleeps 50 ms)
PeakSteps == {25, 30, 50, 60}

\* a recording is quiet (PeakQuietRms) except for at most PeakMaxLoud loud samples,
\* which lie at the places PeakLoudSlots and have a loudness of PeakLoudRms
PeakQuietRms == 1
PeakLoudRms == {2, 3}
PeakLoudSlots == {3, 6, 9, 12, 18, 21}
PeakMaxLoud == 3
PeakThresholdArgs == {1, 2}

PeakInit ==
    /\ \E len \in PeakLens, dt \in PeakSteps, P \in SUBSET PeakLoudSlots :
          /\ Cardinality(P) <= PeakMaxLoud
          /\ \E loud \in [P -> PeakLoudRms] :
                /\ peak_rms_values =
                      [i \in 1..len |-> IF i \in P THEN loud[i] ELSE PeakQuietRms]
                /\ peak_timestamps = [i \in 1..len |-> i * dt]
    /\ peak_threshold \in PeakThresholdArgs
    /\ peak_claps = None

\* claps = detect_claps(rms_values, timestamps, threshold)
DetectClaps ==
    /\ peak_claps = None
    /\ peak_claps' =
          Some(detect_claps(peak_rms_values, peak_timestamps, peak_threshold))
    /\ UNCHANGED <<peak_rms_values, peak_timestamps, peak_threshold>>

----------------------------------------------------------------------------
(* Fractions: [n, d] with d > 0, in lowest terms *)

RECURSIVE GCD(_, _)
GCD(a, b) == IF b = 0 THEN a ELSE GCD(b, a % b)

Frac(n, d) == LET g == GCD(n, d) IN [n |-> n \div g, d |-> d \div g]
FInt(k) == [n |-> k, d |-> 1]
FLt(a, b) == a.n * b.d < b.n * a.d
FLe(a, b) == a.n * b.d <= b.n * a.d
FMax(a, b) == IF FLt(a, b) THEN b ELSE a
FMin(a, b) == IF FLt(b, a) THEN b ELSE a
\* the fraction a times p / q
FTimes(a, p, q) == Frac(a.n * p, a.d * q)

----------------------------------------------------------------------------
(* The recording loop of main() *)

\* recent_values = deque(maxlen=50)
RecentMaxLen == 50

\* Phase 1 lasts 10 s, Phase 2 at most 45 s and ends after 6 claps
Phase1Duration == 10000
Phase2MaxDuration == 45000
TargetClaps == 6

\* time.time() when the recording starts; last_clap_detection starts at 0,
\* which any reading of the clock is more than 0.3 s beyond
StartTime == ClockStart

\* the locals of the loop as one record
NewRecording ==
    [ rms_values              |-> <<>>,
      timestamps              |-> <<>>,
      max_rms                 |-> 0,
      recent_values           |-> <<>>,
      last_clap_detection     |-> 0,
      detected_clap_count     |-> 0,
      detected_claps_realtime |-> <<>>,
      phase2_start            |-> None,
      current_phase           |-> 1,
      baseline_max            |-> 0,
      preview_threshold       |-> None,
      dynamic_threshold       |-> FInt(0) ]

\* deque.append: the oldest value leaves a full deque
DequeAppend(q, x) ==
    IF Len(q) < RecentMaxLen THEN Append(q, x)
    ELSE Append(SubSeq(q, 2, Len(q)), x)

\* the sample is added to the lists and the running maxima; the displayed
\* threshold is reset
RecordSample(L, rms, elapsed) ==
    LET bmax == IF L.current_phase = 1 THEN Max2(L.baseline_max, rms)
                ELSE L.baseline_max
    IN  [L EXCEPT !.rms_values = Append(@, rms),
                  !.timestamps = Append(@, elapsed),
                  !.max_rms = Max2(@, rms),
                  !.recent_values = DequeAppend(@, rms),
                  !.baseline_max = bmax,
                  !.dynamic_threshold =
                      IF L.current_phase = 1 THEN Frac(bmax * 25, 10)
                      ELSE FInt(0)]

\* preview_threshold without the limit of 70 % of the microphone test peak
PreviewThreshold_Unclamped(L, mic_test_max) ==
    LET baseline_avg ==
            IF L.rms_values # <<>>
            THEN Frac(Sum(L.rms_values), Len(L.rms_values)) ELSE FInt(0)
        reference_max ==
            IF mic_test_max > 0
            THEN FMax(FInt(L.baseline_max), Frac(mic_test_max * 8, 10))
            ELSE FInt(L.baseline_max)
    IN  FMax(FMax(FTimes(reference_max, 13, 10),
                  FTimes(baseline_avg, 2, 1)), FInt(30))

\* preview_threshold with the baseline maximum alone as the reference
PreviewThreshold_NoMicReference(L, mic_test_max) ==
    LET baseline_avg ==
            IF L.rms_values # <<>>
            THEN Frac(Sum(L.rms_values), Len(L.rms_values)) ELSE FInt(0)
        preview == FMax(FMax(FTimes(FInt(L.baseline_max), 13, 10),
                             FTimes(baseline_avg, 2, 1)), FInt(30))
    IN  IF mic_test_max > 0
        THEN FMin(preview, Frac(mic_test_max * 7, 10))
        ELSE preview

\* preview_threshold as Phase 1 ends
PreviewThreshold(L, mic_test_max) ==
    LET baseline_avg ==
            IF L.rms_values # <<>>
            THEN Frac(Sum(L.rms_values), Len(L.rms_values)) ELSE FInt(0)
        reference_max ==
            IF mic_test_max > 0
            THEN FMax(FInt(L.baseline_max), Frac(mic_test_max * 8, 10))
            ELSE FInt(L.baseline_max)
        preview == FMax(FMax(FTimes(reference_max, 13, 10),
                             FTimes(baseline_avg, 2, 1)), FInt(30))
    IN  IF mic_test_max > 0
        THEN FMin(preview, Frac(mic_test_max * 7, 10))
        ELSE preview

\* Phase 1 ends with the first sample read 10 s or more after the start
PhaseTransition(L, mic_test_max, current_time) ==
    LET preview == PreviewThreshold(L, mic_test_max)
    IN  [L EXCEPT !.current_phase = 2,
                  !.phase2_start = Some(current_time),
                  !.preview_threshold = Some(preview),
                  !.dynamic_threshold = preview]

\* the threshold a quiet clap gets when it is above the baseline and below
\* the adaptive threshold
LoweredThreshold(L, rms) ==
    FMax(FMax(Frac(rms * 7, 10), Frac(L.baseline_max * 115, 100)), FInt(30))

\* dynamic_threshold of a Phase 2 sample
AdaptiveThreshold(L, rms) ==
    LET preview == Val(L.preview_threshold)
        phase2_max_rms == L.max_rms
    IN  IF FLt(Frac(L.baseline_max * 115, 100), FInt(rms))
        THEN LET adaptive_low ==
                     FMax(Frac(L.baseline_max * 115, 100), FInt(30))
                 adaptive_from_max ==
                     FMax(Frac(phase2_max_rms * 55, 100),
                          Frac(L.baseline_max * 11, 10))
                 dynamic == FMin(FMin(preview, adaptive_low), adaptive_from_max)
             IN  IF /\ FLt(Frac(L.baseline_max * 12, 10), FInt(rms))
                    /\ FLt(FInt(rms), dynamic)
                 THEN LoweredThreshold(L, rms)
                 ELSE dynamic
        ELSE preview

\* the check of the two samples before the current one: the loop over
\* range(-3, 0) leaves at the first neighbour that reaches rms, and fewer
\* than 2 neighbours passed make the sample a peak all the same
RealtimeIsPeak(recent_list, rms) ==
    LET checked ==
            IF recent_list[Len(recent_list) - 2] >= rms THEN 0
            ELSE IF recent_list[Len(recent_list) - 1] >= rms THEN 1
            ELSE 2
        is_peak == checked = 2
    IN  IF Len(recent_list) >= 3
        THEN (IF checked < 2 THEN TRUE ELSE is_peak)
        ELSE TRUE

\* more than 0.3 s have passed since the last detection
EnoughTimePassed_NoGap(L, current_time) ==
    current_time - L.last_clap_detection >= 0

EnoughTimePassed(L, current_time) ==
    current_time - L.last_clap_detection > PeakGap

\* the real-time peak detection finds a clap in the sample
RealtimeClap(L, rms, current_time) ==
    /\ Len(L.recent_values) >= 5
    /\ LET baseline_multiplier == Frac(L.baseline_max * 11, 10)
           detection_threshold ==
               FMin(L.dynamic_threshold, FMax(baseline_multiplier, FInt(3)))
       IN  /\ FLt(detection_threshold, FInt(rms))
           /\ FLt(baseline_multiplier, FInt(rms))
           /\ EnoughTimePassed(L, current_time)
           /\ RealtimeIsPeak(L.recent_values, rms)

\* RecordClap that counts the clap and does not list it
RecordClap_CountOnly(L, rms, elapsed, current_time) ==
    [L EXCEPT !.detected_clap_count = @ + 1,
              !.last_clap_detection = current_time]

\* a clap is detected: it is counted and listed with its time and loudness
RecordClap(L, rms, elapsed, current_time) ==
    [L EXCEPT !.detected_clap_count = @ + 1,
              !.last_clap_detection = current_time,
              !.detected_claps_realtime = Append(@, <<elapsed, rms>>)]

\* Phase2Sample without the time limit of Phase 2
Phase2Sample_NoTimeLimit(L, rms, elapsed, current_time) ==
    LET A == [L EXCEPT !.dynamic_threshold = AdaptiveThreshold(L, rms)]
    IN  IF RealtimeClap(A, rms, current_time)
        THEN LET B == RecordClap(A, rms, elapsed, current_time)
             IN  [self |-> B, brk |-> B.detected_clap_count >= TargetClaps]
        ELSE [self |-> A, brk |-> FALSE]

\* the Phase 2 part of an iteration: [self, brk]
Phase2Sample(L, rms, elapsed, current_time) ==
    LET phase2_duration ==
            IF L.phase2_start # None
            THEN current_time - Val(L.phase2_start) ELSE 0
        A == [L EXCEPT !.dynamic_threshold = AdaptiveThreshold(L, rms)]
    IN  IF RealtimeClap(A, rms, current_time)
        THEN LET B == RecordClap(A, rms, elapsed, current_time)
             IN  [self |-> B,
                  brk  |-> \/ B.detected_clap_count >= TargetClaps
                           \/ phase2_duration >= Phase2MaxDuration]
        ELSE [self |-> A, brk |-> phase2_duration >= Phase2MaxDuration]

\* one iteration of the loop with a non-empty chunk of loudness rms read
\* elapsed ms after the start; restart_fails: the stream is found inactive
\* as Phase 1 ends and cannot be restarted
LoopIteration(L, mic_test_max, rms, elapsed, restart_fails) ==
    LET current_time == StartTime + elapsed
        A == RecordSample(L, rms, elapsed)
        ends_phase1 == A.current_phase = 1 /\ elapsed >= Phase1Duration
        B == IF ends_phase1
             THEN PhaseTransition(A, mic_test_max, current_time) ELSE A
    IN  IF ends_phase1 /\ restart_fails THEN [self |-> B, brk |-> TRUE]
        ELSE IF B.current_phase = 2
        THEN Phase2Sample(B, rms, elapsed, current_time)
        ELSE [self |-> B, brk |-> FALSE]

----------------------------------------------------------------------------
(* The analysis of a recording *)

\* a recording of fewer samples is not analysed
MinSamples == 20

\* the baseline is 30 % of the samples and at most int(10 / 0.05) of them
BaselineCap == 200

\* len(rms_values) < 20
TooShort_Inclusive(rms_values) == Len(rms_values) <= MinSamples

TooShort(rms_values) == Len(rms_values) < MinSamples

\* the integer square root, by Newton's iteration
RECURSIVE ISqrtIter(_, _)
ISqrtIter(v, x) ==
    LET y == (x + v \div x) \div 2
    IN  IF y >= x THEN x ELSE ISqrtIter(v, y)

ISqrt(v) == IF v = 0 THEN 0 ELSE ISqrtIter(v, v)

\* floor(k * sqrt(v)) for k > 0
FloorTimesSqrt(k, v) ==
    LET r == ISqrt(v)
    IN  k * r + SetMax({j \in 0..(k - 1) :
                           2 * k * r * j + j * j <= k * k * (v - r * r)})

\* baseline_samples = min(int(len * 0.3), int(10 / 0.05))
BaselineSamples_Rounded(rms_values) ==
    Min2((Len(rms_values) * 3 + 5) \div 10, BaselineCap)

BaselineSamples(rms_values) ==
    Min2((Len(rms_values) * 3) \div 10, BaselineCap)

\* baseline_rms = rms_values[:baseline_samples]
BaselineRms(rms_values) ==
    LET baseline_samples == BaselineSamples(rms_values)
    IN  IF baseline_samples > 0
        THEN SubSeq(rms_values, 1, baseline_samples) ELSE <<>>

\* clap_phase_rms = rms_values[baseline_samples:]
ClapPhaseRms(rms_values) ==
    LET baseline_samples == BaselineSamples(rms_values)
    IN  IF baseline_samples < Len(rms_values)
        THEN SubSeq(rms_values, baseline_samples + 1, Len(rms_values))
        ELSE rms_values

\* n * n * variance of a list: n * sum(x * x) - sum(x) ^ 2, where variance
\* is sum((x - avg) ** 2) / n
ScaledVariance(s) ==
    IF Len(s) > 1
    THEN Len(s) * Sum([i \in 1..Len(s) |-> s[i] * s[i]]) - Sum(s) * Sum(s)
    ELSE 0

\* the statistics of the baseline: its sum and length (baseline_avg is
\* sum / len, or overall_avg without a baseline), baseline_max, and
\* len * len * variance (baseline_std is sqrt(variance))
BaselineStats(rms_values) ==
    LET baseline_rms == BaselineRms(rms_values)
    IN  IF baseline_rms # <<>>
        THEN [sum |-> Sum(baseline_rms), len |-> Len(baseline_rms),
              max |-> SeqMax(baseline_rms),
              var |-> ScaledVariance(baseline_rms)]
        ELSE [sum |-> Sum(rms_values), len |-> Len(rms_values),
              max |-> 0, var |-> 0]

\* int(p / q * (baseline_avg + m * baseline_std)), which is
\* floor((p * sum + p * m * sqrt(var)) / (q * len))
FloorNoise(b, m, p, q) ==
    (p * b.sum + FloorTimesSqrt(p * m, b.var)) \div (q * b.len)

\* detection_threshold = max(baseline_avg + baseline_std * 3,
\* baseline_max * 2.0, 30), rounded down: the samples it is compared with
\* are integers, and rms > x is rms > floor(x) for them
DetectionThreshold(b) ==
    Max3(FloorNoise(b, 3, 1, 1), b.max * 2, 30)

\* detection_threshold = max(baseline_max * 1.3, 20) of the second try,
\* rounded down
RetryThreshold(b) == Max2((b.max * 13) \div 10, 20)

\* OfflineClaps without the second try
OfflineClaps_NoRetry(rms_values, timestamps, max_rms) ==
    LET b == BaselineStats(rms_values)
        baseline_samples == BaselineSamples(rms_values)
    IN  detect_claps(ClapPhaseRms(rms_values),
                     SubSeq(timestamps, baseline_samples + 1, Len(timestamps)),
                     DetectionThreshold(b))

\* the peaks of the gesture phase found after the recording
OfflineClaps(rms_values, timestamps, max_rms) ==
    LET b == BaselineStats(rms_values)
        baseline_samples == BaselineSamples(rms_values)
        clap_phase_rms == ClapPhaseRms(rms_values)
        clap_timestamps ==
            SubSeq(timestamps, baseline_samples + 1, Len(timestamps))
        claps == detect_claps(clap_phase_rms, clap_timestamps,
                              DetectionThreshold(b))
    IN  IF claps = <<>> /\ max_rms * 10 > b.max * 15
        THEN detect_claps(clap_phase_rms, clap_timestamps, RetryThreshold(b))
        ELSE claps

\* claps = detected_claps_realtime if there are any
SelectClaps(rms_values, timestamps, max_rms, detected_claps_realtime) ==
    IF detected_claps_realtime # <<>> THEN detected_claps_realtime
    ELSE OfflineClaps(rms_values, timestamps, max_rms)

\* the three thresholds from the average clap_avg = csum / clen of the peaks
PeakThresholds_NoNoiseFloor(b, csum, clen) ==
    [conservative |-> (csum * 6) \div (clen * 10),
     moderate     |-> (csum * 5) \div (clen * 10),
     sensitive    |-> (csum * 4) \div (clen * 10)]

PeakThresholds(b, csum, clen) ==
    [conservative |-> Max2((csum * 6) \div (clen * 10), FloorNoise(b, 2, 2, 1)),
     moderate     |-> Max2((csum * 5) \div (clen * 10), FloorNoise(b, 2, 3, 2)),
     sensitive    |-> Max2((csum * 4) \div (clen * 10), FloorNoise(b, 2, 6, 5))]

\* the thresholds from the loudest sample of the session
SessionMaxThresholds_Swapped(session_max) ==
    [conservative |-> (session_max * 6) \div 10,
     moderate     |-> (session_max * 7) \div 10,
     sensitive    |-> (session_max * 5) \div 10]

SessionMaxThresholds(session_max) ==
    [conservative |-> (session_max * 7) \div 10,
     moderate     |-> (session_max * 6) \div 10,
     sensitive    |-> (session_max * 5) \div 10]

\* the thresholds of a very quiet session
BaselineThresholds(b) ==
    [conservative |-> (b.max * 25) \div 10,
     moderate     |-> (b.max * 2),
     sensitive    |-> (b.max * 15) \div 10]

\* the recommended value is outside of 500..5000
RangeWarning(moderate) == moderate < 500 \/ moderate > 5000

\* the path taken and its thresholds; low_confidence: the warnings of the
\* fallback paths are logged
Recommend_NoSessionMax(b, claps, max_rms) ==
    LET csum == Sum([i \in 1..Len(claps) |-> ClapRms(claps[i])])
    IN  IF claps # <<>> /\ csum > 0
        THEN [path |-> "peaks", low_confidence |-> FALSE,
              thresholds |-> PeakThresholds(b, csum, Len(claps))]
        ELSE [path |-> "baseline", low_confidence |-> TRUE,
              thresholds |-> BaselineThresholds(b)]

Recommend_SilentFallback(b, claps, max_rms) ==
    LET csum == Sum([i \in 1..Len(claps) |-> ClapRms(claps[i])])
        session_max == max_rms
    IN  IF claps # <<>> /\ csum > 0
        THEN [path |-> "peaks", low_confidence |-> FALSE,
              thresholds |-> PeakThresholds(b, csum, Len(claps))]
        ELSE IF session_max * 10 > b.max * 12
        THEN [path |-> "session_max", low_confidence |-> TRUE,
              thresholds |-> SessionMaxThresholds(session_max)]
        ELSE [path |-> "baseline", low_confidence |-> FALSE,
              thresholds |-> BaselineThresholds(b)]

Recommend(b, claps, max_rms) ==
    LET csum == Sum([i \in 1..Len(claps) |-> ClapRms(claps[i])])
        session_max == max_rms
    IN  IF claps # <<>> /\ csum > 0
        THEN [path |-> "peaks", low_confidence |-> FALSE,
              thresholds |-> PeakThresholds(b, csum, Len(claps))]
        ELSE IF session_max * 10 > b.max * 12
        THEN [path |-> "session_max", low_confidence |-> TRUE,
              thresholds |-> SessionMaxThresholds(session_max)]
        ELSE [path |-> "baseline", low_confidence |-> TRUE,
              thresholds |-> BaselineThresholds(b)]

\* what the analysis reports for a recording
Analysis(rms_values, timestamps, max_rms, detected_claps_realtime) ==
    IF TooShort(rms_values)
    THEN [status |-> "insufficient"]
    ELSE LET b == BaselineStats(rms_values)
             claps == SelectClaps(rms_values, timestamps, max_rms,
                                  detected_claps_realtime)
             r == Recommend(b, claps, max_rms)
         IN  [status           |-> "recommended",
              baseline_samples |-> BaselineSamples(rms_values),
              baseline_rms     |-> BaselineRms(rms_values),
              clap_phase_rms   |-> ClapPhaseRms(rms_values),
              claps            |-> claps,
              path             |-> r.path,
              low_confidence   |-> r.low_confidence,
              conservative     |-> r.thresholds.conservative,
              moderate         |-> r.thresholds.moderate,
              sensitive        |-> r.thresholds.sensitive,
              range_warning    |-> RangeWarning(r.thresholds.moderate)]

----------------------------------------------------------------------------
(* The calibration run on bounded microphone input *)

\* the microphone test lets the recording start with a peak of 5 or more
MicTestPeaks == {30, 3000}

\* the number of chunks a stream delivers before the user interrupts
StreamLen == 26

\* a stream of LongStreamLen chunks is long enough for the baseline cap
LongStreamLen == 670

\* a stream read every SlowStep ms until the recording ends by itself
SlowStreamLen == 740
SlowStep == 75

\* the time between two reads in Phase 1 and in Phase 2
StreamSteps == {<<50, 50>>, <<500, 100>>, <<2500, 400>>}

\* the ambient noise alternates between two levels
AmbientRms(i) == IF i % 2 = 1 THEN 9 ELSE 11

\* at most MaxLoudChunks chunks, at the places ClapSlots, are louder
ClapSlots == {3, 13, 16, 19, 21, 22, 25}
ClapRmsValues == {15, 25, 40, 200}
MaxLoudChunks == 2

\* a quiet Phase 1 of 20 chunks, then six claps of 2000, 3 s apart
ExampleLen == 31
ExampleClapRms == 2000
ExampleStream ==
    [i \in 1..ExampleLen |->
        IF i > 20 /\ i % 2 = 1 THEN ExampleClapRms ELSE AmbientRms(i)]

\* the read times: step1 apart until 10 s are reached, step2 apart after
StreamTimes(len, step1, step2) ==
    LET k1 == (Phase1Duration + step1 - 1) \div step1
    IN  [i \in 1..len |->
            IF i <= k1 THEN i * step1 ELSE k1 * step1 + (i - k1) * step2]

\* the detector is not in use
DetectorIdle ==
    /\ threshold = 0
    /\ double_clap_window = 0
    /\ last_clap_time = None
    /\ last_action_time = InitialLastActionTime
    /\ is_above_threshold = FALSE
    /\ pending_single = FALSE
    /\ now = ClockStart
    /\ called = FALSE
    /\ rms_in = 0
    /\ prev_rms = None
    /\ result = NoEvent
    /\ pre = NewDetector(0, 0)
    /\ prev_event_time = None
    /\ first_edge_time = None
    /\ last_edge_time = None
    /\ prev_edge_time = None
    /\ run_edges = 0
    /\ unused_edges = 0

\* the microphone test is passed and the recording is about to start
CalInit ==
    /\ mic_test_max_rms \in MicTestPeaks
    /\ \/ \E steps \in StreamSteps, P \in SUBSET ClapSlots :
             /\ Cardinality(P) <= MaxLoudChunks
             /\ \E loud \in [P -> ClapRmsValues] :
                   stream_rms = [i \in 1..StreamLen |->
                                    IF i \in P THEN loud[i] ELSE AmbientRms(i)]
             /\ stream_time = StreamTimes(StreamLen, steps[1], steps[2])
       \/ /\ stream_rms = [i \in 1..LongStreamLen |-> AmbientRms(i)]
          /\ stream_time = StreamTimes(LongStreamLen, 50, 50)
       \/ /\ stream_rms = [i \in 1..SlowStreamLen |-> AmbientRms(i)]
          /\ stream_time = StreamTimes(SlowStreamLen, SlowStep, SlowStep)
       \/ /\ stream_rms = ExampleStream
          /\ stream_time = StreamTimes(ExampleLen, 500, 1500)
    /\ cal_pc = "recording"
    /\ rec = NewRecording
    /\ sample_count = 0
    /\ report = None

\* one iteration of the loop: the next chunk of the stream is read
ReadChunk ==
    /\ cal_pc = "recording"
    /\ Len(rec.rms_values) < Len(stream_rms)
    /\ \E restart_fails \in BOOLEAN :
          LET i == Len(rec.rms_values) + 1
              out == LoopIteration(rec, mic_test_max_rms, stream_rms[i],
                                   stream_time[i], restart_fails)
          IN  /\ rec' = out.self
              /\ cal_pc' = IF out.brk THEN "analysis" ELSE "recording"
    /\ sample_count' = sample_count + 1
    /\ UNCHANGED <<mic_test_max_rms, stream_rms, stream_time, report>>

\* the loop is left between two iterations: KeyboardInterrupt, or the
\* stream is inactive and cannot be restarted
LeaveLoop ==
    /\ cal_pc = "recording"
    /\ cal_pc' = "analysis"
    /\ UNCHANGED <<mic_test_max_rms, stream_rms, stream_time, rec,
                   sample_count, report>>

\* the recording is analysed
Analyze ==
    /\ cal_pc = "analysis"
    /\ report' = Some(Analysis(rec.rms_values, rec.timestamps, rec.max_rms,
                               rec.detected_claps_realtime))
    /\ cal_pc' = "done"
    /\ UNCHANGED <<mic_test_max_rms, stream_rms, stream_time, rec,
                   sample_count>>

CalNext ==
    \/ ReadChunk /\ UNCHANGED <<vars, peakvars, mainvars, audiovars,
                              exitvars>>
    \/ LeaveLoop /\ UNCHANGED <<vars, peakvars, mainvars, audiovars,
                              exitvars>>
    \/ Analyze /\ UNCHANGED <<vars, peakvars, mainvars, audiovars,
                            exitvars>>

\* a calibration run and nothing else
CalStart ==
    CalInit /\ DetectorIdle /\ PeakIdle /\ MainIdle /\ AudioIdle /\ ExitIdle

SpecCal == CalStart /\ [][CalNext]_<<vars, peakvars, calvars, mainvars>>

PeakNext ==
    DetectClaps /\ UNCHANGED <<vars, calvars, mainvars, audiovars, exitvars>>

\* a call of detect_claps and nothing else
PeakStart ==
    PeakInit /\ DetectorIdle /\ CalIdle /\ MainIdle /\ AudioIdle /\ ExitIdle

SpecPeaks == PeakStart /\ [][PeakNext]_<<vars, peakvars, calvars, mainvars>>

----------------------------------------------------------------------------
(* A calibration run nobody interrupts: the microphone goes on delivering
   chunks until the loop ends by itself *)

\* the time between two reads in Phase 1 and in Phase 2; with them StreamLen
\* chunks cover more than 10 s of Phase 1 and 45 s of Phase 2
UnattendedSteps == {<<1000, 5000>>, <<2500, 7500>>, <<2500, 3000>>}

UnattendedInit ==
    /\ mic_test_max_rms \in MicTestPeaks
    /\ \/ \E steps \in UnattendedSteps, P \in SUBSET ClapSlots :
             /\ Cardinality(P) <= MaxLoudChunks
             /\ \E loud \in [P -> ClapRmsValues] :
                   stream_rms = [i \in 1..StreamLen |->
                                    IF i \in P THEN loud[i] ELSE AmbientRms(i)]
             /\ stream_time = StreamTimes(StreamLen, steps[1], steps[2])
       \/ /\ stream_rms = ExampleStream
          /\ stream_time = StreamTimes(ExampleLen, 500, 1500)
    /\ cal_pc = "recording"
    /\ rec = NewRecording
    /\ sample_count = 0
    /\ report = None

UnattendedNext ==
    \/ ReadChunk /\ UNCHANGED <<vars, peakvars, mainvars, audiovars,
                              exitvars>>
    \/ Analyze /\ UNCHANGED <<vars, peakvars, mainvars, audiovars,
                            exitvars>>

UnattendedStart ==
    /\ UnattendedInit /\ DetectorIdle /\ PeakIdle /\ MainIdle
    /\ AudioIdle /\ ExitIdle

\* the step of ReadChunk as sample_count shows it
NextSample ==
    /\ cal_pc = "recording"
    /\ sample_count < Len(stream_rms)
    /\ sample_count' = sample_count + 1

\* the step of Analyze as cal_pc shows it
AnalysisDone == cal_pc = "analysis" /\ cal_pc' = "done"

\* every iteration of the loop ends (the blocking read returns, the sleep is
\* 50 ms) and the next one starts; the analysis follows the loop
SpecUnattended ==
    /\ UnattendedStart
    /\ [][UnattendedNext]_<<vars, peakvars, calvars, mainvars>>
    /\ WF_sample_count(NextSample)
    /\ WF_cal_pc(AnalysisDone)

----------------------------------------------------------------------------
(* The main loop: src/main.py, lines 75-131 *)

\* WakeBotConfig: threshold and double_clap_window_ms
ConfigThreshold == 3000
ConfigDoubleClapWindowMs == 500

\* the time from one call of clap_detector.process to the next (ms)
MainSteps == {100, 400, 1500}

\* max_consecutive_errors
MaxConsecutiveErrors == 5

\* the public and private methods class WakeBotActions defines
WakeBotActionsMethods == {"__init__", "wake_screen", "_open_lock_screen"}

\* the method of actions the loop calls for what the detector returned
\* (<<>>: none)
ActionMethod(ret) ==
    IF ret = "SINGLE" THEN Some("wake_screen")
    ELSE IF ret = "DOUBLE" THEN Some("lock_screen")
    ELSE None

\* calling a method the object does not have raises AttributeError; the
\* methods WakeBotActions has catch every Exception themselves
CallRaises(method) == method \notin WakeBotActionsMethods

\* ErrorHandler that resets the counter only if the restart succeeded
ErrorHandler_CountsOn ==
    LET errors == consecutive_errors + 1
    IN  /\ iteration' = "failed"
        /\ restart_attempted' = (errors >= MaxConsecutiveErrors)
        /\ IF errors >= MaxConsecutiveErrors
           THEN \E ok \in BOOLEAN :
                   /\ restart_ok' = ok
                   /\ consecutive_errors' = IF ok THEN 0 ELSE errors
           ELSE /\ restart_ok' = FALSE
                /\ consecutive_errors' = errors

\* except Exception: the error is counted; the fifth in a row has the stream
\* restarted and the counter reset, whether or not the restart succeeds
ErrorHandler ==
    LET errors == consecutive_errors + 1
    IN  /\ iteration' = "failed"
        /\ restart_attempted' = (errors >= MaxConsecutiveErrors)
        /\ IF errors >= MaxConsecutiveErrors
           THEN /\ restart_ok' \in BOOLEAN
                /\ consecutive_errors' = 0
           ELSE /\ restart_ok' = FALSE
                /\ consecutive_errors' = errors

\* one iteration in which read_chunk delivers a chunk of loudness rms, dt ms
\* after the detector's previous call
Iteration(rms, dt) ==
    /\ main_pc = "loop"
    /\ Process(rms, dt)
    /\ LET ret == process(Self, rms, now + dt).ret
           method == ActionMethod(ret)
           raised == method # None /\ CallRaises(Val(method))
       IN  /\ action' = ret
           /\ wake_screen_calls' =
                 IF method = Some("wake_screen") /\ ~raised THEN 1 ELSE 0
           /\ lock_screen_calls' =
                 IF method = Some("lock_screen") /\ ~raised THEN 1 ELSE 0
           /\ raised_by' = IF raised THEN Val(method) ELSE "none"
           /\ IF raised
              THEN ErrorHandler
              ELSE /\ iteration' = "success"
                   /\ consecutive_errors' = 0
                   /\ restart_attempted' = FALSE
                   /\ restart_ok' = FALSE
    /\ main_pc' = main_pc

\* one iteration in which read_chunk raises
ReadError ==
    /\ main_pc = "loop"
    /\ ErrorHandler
    /\ raised_by' = "read_chunk"
    /\ wake_screen_calls' = 0
    /\ lock_screen_calls' = 0
    /\ UNCHANGED <<main_pc, action, vars, peakvars, calvars, audiovars,
                   exitvars>>

\* KeyboardInterrupt: the loop is left and the stream stopped
Interrupt ==
    /\ main_pc = "loop"
    /\ main_pc' = "stopped"
    /\ UNCHANGED <<consecutive_errors, action, iteration, wake_screen_calls,
                   lock_screen_calls, restart_attempted, raised_by,
                   restart_ok, vars, peakvars, calvars, audiovars,
                   exitvars>>

MainNext ==
    \/ \E rms \in RmsValues, dt \in MainSteps : Iteration(rms, dt)
    \/ ReadError
    \/ Interrupt

\* the loop as main enters it: the detector built from the configuration,
\* no error counted
MainStart ==
    /\ LET d == NewDetector(ConfigThreshold, ConfigDoubleClapWindowMs)
       IN  /\ threshold = d.threshold
           /\ double_clap_window = d.double_clap_window
           /\ last_clap_time = d.last_clap_time
           /\ last_action_time = d.last_action_time
           /\ is_above_threshold = d.is_above_threshold
           /\ pending_single = d.pending_single
           /\ pre = d
    /\ now = ClockStart
    /\ called = FALSE
    /\ rms_in = 0
    /\ prev_rms = None
    /\ result = NoEvent
    /\ prev_event_time = None
    /\ first_edge_time = None
    /\ last_edge_time = None
    /\ prev_edge_time = None
    /\ run_edges = 0
    /\ unused_edges = 0
    /\ main_pc = "loop"
    /\ consecutive_errors = 0
    /\ action = NoEvent
    /\ iteration = "none"
    /\ wake_screen_calls = 0
    /\ lock_screen_calls = 0
    /\ restart_attempted = FALSE
    /\ raised_by = "none"
    /\ restart_ok = FALSE
    /\ PeakIdle
    /\ CalIdle
    /\ AudioIdle
    /\ ExitIdle

SpecMain == MainStart /\ [][MainNext]_<<vars, peakvars, calvars, mainvars>>

----------------------------------------------------------------------------
(* What the calibration run recorded and reported *)

\* the analysis ended with a recommendation
Recommended == report # None /\ Val(report).status = "recommended"

\* the analysis ended without one
Refused == report # None /\ Val(report).status = "insufficient"

\* the recorded samples and their number
Samples == rec.rms_values
NumSamples == Len(rec.rms_values)

\* the loudness values of the peaks the recommendation was computed from
PeakValues == [i \in 1..Len(Val(report).claps) |-> ClapRms(Val(report).claps[i])]

\* t is x truncated to an integer for the maximum x of num / den and
\* (p * sum + k * sqrt(var)) / (q * len): both are below t + 1 and one of
\* them is at least t
TruncatedMax(t, num, den, p, k, q, b) ==
    LET root == ISqrt(k * k * b.var)
    IN  /\ num < den * (t + 1)
        /\ q * b.len * (t + 1) - p * b.sum > root
        /\ \/ den * t <= num
           \/ q * b.len * t - p * b.sum <= 0
           \/ (q * b.len * t - p * b.sum) * (q * b.len * t - p * b.sum)
                 <= k * k * b.var

\* t is num / den truncated to an integer
Truncated(t, num, den) == den * t <= num /\ num < den * (t + 1)

\* sum, length and len * len * variance of the reported baseline
ReportedBaseline ==
    LET s == Val(report).baseline_rms
    IN  [sum |-> Sum(s), len |-> Len(s), max |-> SeqMax(s),
         var |-> Len(s) * Sum([i \in 1..Len(s) |-> s[i] * s[i]])
                    - Sum(s) * Sum(s)]

\* C12: with 20 or more samples the three thresholds are ordered on every
\* path: conservative >= moderate >= sensitive.
C12_ThresholdsOrdered ==
    Recommended =>
        /\ NumSamples >= MinSamples
        /\ \A i \in 1..NumSamples : Samples[i] >= 0
        /\ Val(report).path \in {"peaks", "session_max", "baseline"}
        /\ Val(report).conservative >= Val(report).moderate
        /\ Val(report).moderate >= Val(report).sensitive

\* a fallback from the loudest sample with three different thresholds
C12_Witness ==
    /\ Recommended
    /\ Val(report).path = "session_max"
    /\ Val(report).conservative > Val(report).moderate
    /\ Val(report).moderate > Val(report).sensitive

\* C13: 19 or fewer samples give no recommendation and no thresholds; 20
\* or more give a recommendation with three thresholds.
C13_MinimumData ==
    report # None =>
        /\ NumSamples <= 19 =>
              /\ Refused
              /\ DOMAIN Val(report) = {"status"}
        /\ NumSamples >= 20 =>
              /\ Recommended
              /\ Val(report).conservative \in Nat
              /\ Val(report).moderate \in Nat
              /\ Val(report).sensitive \in Nat

\* exactly 20 samples and a recommendation
C13_Witness ==
    /\ Recommended
    /\ NumSamples = 20
    /\ Val(report).moderate > 0

\* C14: with n >= 20 samples the baseline is the first min(floor(0.3 n),
\* 200) samples and the gesture part is the rest, which is not empty; the
\* two together are the recording.
C14_BaselineSplit ==
    Recommended =>
        LET n == NumSamples
            k == Len(Val(report).baseline_rms)
        IN  /\ \/ k = 200 /\ 3 * n >= 10 * 200
               \/ k < 200 /\ 10 * k <= 3 * n /\ 3 * n < 10 * (k + 1)
            /\ k = Val(report).baseline_samples
            /\ Val(report).baseline_rms = [i \in 1..k |-> Samples[i]]
            /\ Val(report).clap_phase_rms = [i \in 1..(n - k) |-> Samples[k + i]]
            /\ Val(report).clap_phase_rms # <<>>
            /\ Val(report).baseline_rms \o Val(report).clap_phase_rms = Samples

\* a recording long enough for the cap: 30 % would be more than 200
C14_Witness ==
    /\ Recommended
    /\ 3 * NumSamples >= 10 * 201
    /\ Len(Val(report).baseline_rms) = 200
    /\ Len(Val(report).clap_phase_rms) = NumSamples - 200

\* C15: with at least one peak the thresholds are max(0.6 clapAverage,
\* 2 noiseMargin), max(0.5 clapAverage, 1.5 noiseMargin) and
\* max(0.4 clapAverage, 1.2 noiseMargin), truncated, where clapAverage is
\* the mean of the peaks and noiseMargin is baselineAverage + 2
\* baselineStdDev; six peaks of 2000 over a baseline near 10 give a
\* moderate threshold of 1000.
C15_PeakFormula ==
    (Recommended /\ Val(report).claps # <<>>) =>
        LET b == ReportedBaseline
            csum == Sum(PeakValues)
            clen == Len(PeakValues)
        IN  /\ TruncatedMax(Val(report).conservative,
                            6 * csum, 10 * clen, 2, 4, 1, b)
            /\ TruncatedMax(Val(report).moderate,
                            5 * csum, 10 * clen, 3, 6, 2, b)
            /\ TruncatedMax(Val(report).sensitive,
                            4 * csum, 10 * clen, 6, 12, 5, b)
            /\ (/\ clen = 6
                /\ \A i \in 1..clen : PeakValues[i] = 2000
                /\ b.max <= 11)
                  => Val(report).moderate = 1000

\* the six peaks of 2000 of the example
C15_Witness ==
    /\ Recommended
    /\ Len(Val(report).claps) = 6
    /\ \A i \in 1..6 : PeakValues[i] = 2000
    /\ ReportedBaseline.max <= 11
    /\ Val(report).moderate = 1000

\* C16: the peak formula is used exactly when a peak was detected; without
\* peaks the thresholds are 0.7 / 0.6 / 0.5 of the loudest sample if it is
\* above 1.2 baselineMax, and 2.5 / 2.0 / 1.5 of baselineMax otherwise.
C16_PathSelection ==
    Recommended =>
        LET b == ReportedBaseline
            session_max == SeqMax(Samples)
        IN  /\ Val(report).path = "peaks" <=> Val(report).claps # <<>>
            /\ Val(report).claps = <<>> =>
                  IF 10 * session_max > 12 * b.max
                  THEN /\ Val(report).path = "session_max"
                       /\ Truncated(Val(report).conservative, 7 * session_max, 10)
                       /\ Truncated(Val(report).moderate, 6 * session_max, 10)
                       /\ Truncated(Val(report).sensitive, 5 * session_max, 10)
                  ELSE /\ Val(report).path = "baseline"
                       /\ Truncated(Val(report).conservative, 25 * b.max, 10)
                       /\ Truncated(Val(report).moderate, 20 * b.max, 10)
                       /\ Truncated(Val(report).sensitive, 15 * b.max, 10)

\* no peak, and a loudest sample above 1.2 baselineMax
C16_Witness ==
    /\ Recommended
    /\ Val(report).claps = <<>>
    /\ 10 * SeqMax(Samples) > 12 * ReportedBaseline.max
    /\ Val(report).path = "session_max"
    /\ Val(report).moderate = (6 * SeqMax(Samples)) \div 10

----------------------------------------------------------------------------
(* What detect_claps was given and returned *)

\* the sample at index i is among the returned claps
ReturnedAt(i) ==
    \E k \in 1..Len(Val(peak_claps)) :
        Val(peak_claps)[k] = <<peak_timestamps[i], peak_rms_values[i]>>

\* (a) the sample exceeds the threshold
ExceedsThreshold(i) == peak_rms_values[i] > peak_threshold

\* (b) the sample is strictly greater than every other sample at most 5
\* places away
GreatestWithinWindow(i) ==
    \A j \in 1..Len(peak_rms_values) :
        (j # i /\ j - i <= 5 /\ i - j <= 5)
            => peak_rms_values[j] < peak_rms_values[i]

\* the time from the last returned sample before i to i (<<>>: there is none)
SincePreviousPeak(i) ==
    LET before == {p \in 1..(i - 1) : ReturnedAt(p)}
    IN  IF before = {} THEN None
        ELSE Some(peak_timestamps[i] - peak_timestamps[SetMax(before)])

\* the sample has 5 samples before it and 5 after it
FullWindow(i) == i > 5 /\ i + 5 <= Len(peak_rms_values)

\* every returned clap is the (timestamp, value) of a sample, in the order
\* of the samples and only once
ReturnedInOrder ==
    /\ \A k \in 1..Len(Val(peak_claps)) :
          \E i \in 1..Len(peak_rms_values) :
              Val(peak_claps)[k] = <<peak_timestamps[i], peak_rms_values[i]>>
    /\ \A k \in 1..(Len(Val(peak_claps)) - 1) :
          ClapTime(Val(peak_claps)[k]) < ClapTime(Val(peak_claps)[k + 1])

\* C18 as claimed: detect_claps returns exactly the samples that exceed
\* the threshold, are strictly the greatest within 5 samples on either
\* side and are 0.3 s or more after the previously returned one, wherever
\* they lie in the sequence.
C18_EveryPeakReported ==
    peak_claps # None =>
        /\ ReturnedInOrder
        /\ \A i \in 1..Len(peak_rms_values) :
              ReturnedAt(i) <=>
                  /\ ExceedsThreshold(i)
                  /\ GreatestWithinWindow(i)
                  /\ \/ SincePreviousPeak(i) = None
                     \/ Val(SincePreviousPeak(i)) >= PeakGap

\* C18: detect_claps returns exactly the samples that have 5 samples on
\* either side, exceed the threshold, are strictly the greatest within 5
\* samples on either side and are more than 0.3 s after the previously
\* returned one.
C18_FullWindowPeaksReported ==
    peak_claps # None =>
        /\ ReturnedInOrder
        /\ \A i \in 1..Len(peak_rms_values) :
              ReturnedAt(i) <=>
                  /\ FullWindow(i)
                  /\ ExceedsThreshold(i)
                  /\ GreatestWithinWindow(i)
                  /\ \/ SincePreviousPeak(i) = None
                     \/ Val(SincePreviousPeak(i)) > PeakGap

\* three peaks: the second is too close to the first and is dropped, the
\* third is too close to the second only and is returned
C18_Witness ==
    /\ peak_claps # None
    /\ \E i, j, k \in 1..Len(peak_rms_values) :
          /\ i < j /\ j < k
          /\ \A m \in {i, j, k} :
                FullWindow(m) /\ ExceedsThreshold(m) /\ GreatestWithinWindow(m)
          /\ ReturnedAt(i) /\ ~ReturnedAt(j) /\ ReturnedAt(k)
          /\ peak_timestamps[k] - peak_timestamps[j] <= PeakGap

----------------------------------------------------------------------------
(* The peaks of a calibration run *)

\* each clap of the list is more than 0.3 s after the one before it
Spaced(claps) ==
    \A i \in 1..(Len(claps) - 1) :
        /\ ClapTime(claps[i]) < ClapTime(claps[i + 1])
        /\ ClapTime(claps[i + 1]) - ClapTime(claps[i]) > 300

\* C19: the peaks found during the recording and the peaks found by
\* detect_claps after it are in strictly increasing time order, and two
\* consecutive ones are more than 0.3 s apart.
C19_PeaksSpaced ==
    /\ Spaced(rec.detected_claps_realtime)
    /\ Recommended => Spaced(Val(report).claps)

\* two peaks found by detect_claps after a recording without real-time peaks
C19_Witness ==
    /\ Recommended
    /\ rec.detected_claps_realtime = <<>>
    /\ Len(Val(report).claps) >= 2
    /\ Spaced(Val(report).claps)

\* C20: in Phase 2 the dynamic threshold is at most the preview threshold
\* after every sample.
C20_DynamicCappedByPreview ==
    (cal_pc = "recording" /\ rec.current_phase = 2) =>
        FLe(rec.dynamic_threshold, Val(rec.preview_threshold))

\* the samples of Phase 1: those read up to the first one taken 10 s or more
\* after the start, which is the sample at which the phase changes
Phase1Count ==
    LET late == {i \in 1..Len(rec.timestamps) :
                     rec.timestamps[i] >= Phase1Duration}
    IN  IF late = {} THEN Len(rec.timestamps) ELSE SetMin(late)

Phase1Samples == SubSeq(rec.rms_values, 1, Phase1Count)

InPhase2 == cal_pc # "idle" /\ rec.current_phase = 2

\* max(1.3 * referenceMax, 2 * baselineAverage, 30) over the Phase 1 samples
UnclampedPreview ==
    LET referenceMax == FMax(FInt(SeqMax(Phase1Samples)),
                             Frac(8 * mic_test_max_rms, 10))
        baselineAverage == Frac(Sum(Phase1Samples), Len(Phase1Samples))
    IN  FMax(FMax(FTimes(referenceMax, 13, 10),
                  FTimes(baselineAverage, 2, 1)), FInt(30))

\* C21: once Phase 2 has begun the preview threshold is
\* max(1.3 * referenceMax, 2 * baselineAverage, 30), with referenceMax the
\* larger of the baseline maximum and 0.8 * the microphone test peak, limited
\* to at most 0.7 * the microphone test peak when that peak is positive.
C21_PreviewFormula ==
    InPhase2 =>
        /\ rec.preview_threshold # None
        /\ Val(rec.preview_threshold) =
               IF mic_test_max_rms > 0
               THEN FMin(UnclampedPreview, Frac(7 * mic_test_max_rms, 10))
               ELSE UnclampedPreview
        /\ mic_test_max_rms > 0 =>
               FLe(Val(rec.preview_threshold), Frac(7 * mic_test_max_rms, 10))

\* Phase 2 has begun after a baseline louder than silence and the limit of
\* 0.7 * the microphone test peak is below the unclamped maximum
C21_Witness ==
    /\ InPhase2
    /\ mic_test_max_rms > 0
    /\ SeqMax(Phase1Samples) > 0
    /\ FLt(Frac(7 * mic_test_max_rms, 10), UnclampedPreview)

\* C27: with a positive microphone test peak the preview threshold is exactly
\* 0.7 * that peak, whatever the baseline maximum and average are.
C27_PreviewIsClamp ==
    (InPhase2 /\ mic_test_max_rms > 0) =>
        /\ rec.preview_threshold # None
        /\ Val(rec.preview_threshold).n * 10 =
               7 * mic_test_max_rms * Val(rec.preview_threshold).d

\* Phase 2 has begun after a baseline whose maximum exceeds the microphone
\* test peak
C27_Witness ==
    /\ InPhase2
    /\ mic_test_max_rms > 0
    /\ rec.baseline_max > mic_test_max_rms
    /\ Val(rec.preview_threshold) = Frac(7 * mic_test_max_rms, 10)

----------------------------------------------------------------------------
(* The detector: cooldown, pending clap and the accounting of edges *)

\* C23: a call made while now - lastActionTime < actionCooldown returns None
\* and leaves lastClapTime, lastActionTime, pendingSingle and aboveThreshold
\* as they were, whatever the sample.
C23_CooldownCallChangesNothing ==
    WasInCooldown =>
        /\ result = NoEvent
        /\ last_clap_time = pre.last_clap_time
        /\ last_action_time = pre.last_action_time
        /\ pending_single = pre.pending_single
        /\ is_above_threshold = pre.is_above_threshold
        /\ threshold = pre.threshold
        /\ double_clap_window = pre.double_clap_window

\* a sample above the threshold reached the re-armed detector during the
\* cooldown
C23_Witness ==
    /\ ValidConfiguration
    /\ WasInCooldown
    /\ Above
    /\ ~pre.is_above_threshold

\* C24: a single clap is never pending during the cooldown: whenever
\* pendingSingle holds, lastClapTime is set and is at least
\* lastActionTime + actionCooldown, so no call that finds a pending clap is
\* in the cooldown.
C24_NoPendingInCooldown ==
    pending_single =>
        /\ last_clap_time # None
        /\ Val(last_clap_time) >= last_action_time + ActionCooldown
        /\ ~InCooldown(Self, now)

\* a first clap is pending after an earlier event
C24_Witness ==
    /\ ValidConfiguration
    /\ pending_single
    /\ last_action_time > InitialLastActionTime

\* C25: a call that emits SINGLE leaves aboveThreshold and lastClapTime as
\* they were and registers no rising edge, whatever its sample.
C25_SingleIgnoresSample ==
    result = "SINGLE" =>
        /\ is_above_threshold = pre.is_above_threshold
        /\ last_clap_time = pre.last_clap_time
        /\ last_edge_time = prev_edge_time
        /\ last_edge_time # Some(now)

\* SINGLE was emitted by a call whose sample was above the threshold of the
\* re-armed detector
C25_Witness ==
    /\ ValidConfiguration
    /\ result = "SINGLE"
    /\ Above
    /\ ~pre.is_above_threshold

\* C26: two per DOUBLE plus one per SINGLE never exceeds the number of rising
\* edges detected, and after an event no clap is pending, so the second clap
\* of a DOUBLE is not the first clap of a later event.
C26_EdgesCoverEvents ==
    /\ unused_edges >= 0
    /\ result \in EventTags => ~pending_single
    /\ (pending_single /\ ~pre.pending_single) => last_edge_time = Some(now)

\* a DOUBLE after an earlier event, with every detected edge part of an event
C26_Witness ==
    /\ ValidConfiguration
    /\ result = "DOUBLE"
    /\ prev_event_time # None
    /\ unused_edges = 0

----------------------------------------------------------------------------
(* The main loop: events and actions *)

\* the latest iteration of the main loop got this event from the detector
Dispatched(event) ==
    /\ iteration # "none"
    /\ raised_by # "read_chunk"
    /\ action = event

\* C22: an iteration in which the detector returns SINGLE calls wake_screen
\* once, one in which it returns DOUBLE calls lock_screen once, and either
\* ends as a success with the consecutive-error counter at 0.
C22_EventsTriggerActions ==
    /\ Dispatched("SINGLE") =>
          /\ wake_screen_calls = 1 /\ lock_screen_calls = 0
          /\ iteration = "success" /\ consecutive_errors = 0
    /\ Dispatched("DOUBLE") =>
          /\ lock_screen_calls = 1 /\ wake_screen_calls = 0
          /\ iteration = "success" /\ consecutive_errors = 0

----------------------------------------------------------------------------
(* The recording loop: phases, claps and the end of the recording *)

\* C28: the baseline sub-sequence of the analysis holds only samples of
\* Phase 1: no sample read after the switch to Phase 2 is counted as
\* baseline.
C28_BaselineWithinPhase1 ==
    Recommended => Val(report).baseline_samples <= Phase1Count

\* C29: detected_clap_count is the length of detected_claps_realtime and at
\* most target_claps; the loop is left in the iteration that detects clap
\* number target_claps; no clap is detected in Phase 1 or listed with a time
\* before Phase 2.
C29_ClapCount ==
    cal_pc # "idle" =>
        /\ rec.detected_clap_count = Len(rec.detected_claps_realtime)
        /\ rec.detected_clap_count <= TargetClaps
        /\ rec.detected_clap_count = TargetClaps => cal_pc # "recording"
        /\ rec.current_phase = 1 => rec.detected_clap_count = 0
        /\ \A k \in 1..Len(rec.detected_claps_realtime) :
              /\ ClapTime(rec.detected_claps_realtime[k]) >= Phase1Duration
              /\ Phase1Count <= Len(rec.timestamps)
              /\ ClapTime(rec.detected_claps_realtime[k])
                     >= rec.timestamps[Phase1Count]

\* the loop was left with clap number target_claps
C29_Witness ==
    /\ cal_pc = "analysis"
    /\ rec.detected_clap_count = TargetClaps
    /\ Len(rec.detected_claps_realtime) = TargetClaps

\* the time of Phase 2 that had elapsed when sample i was read
Phase2Elapsed(i) == rec.timestamps[i] - rec.timestamps[Phase1Count]

\* Phase 2 runs from the first sample read 10 s or more after the start
PhaseFollowsClock ==
    cal_pc # "idle" =>
        /\ sample_count = Len(rec.rms_values)
        /\ rec.current_phase = 2 <=>
               \E i \in 1..Len(rec.timestamps) :
                   rec.timestamps[i] >= Phase1Duration
        /\ rec.current_phase = 2 =>
               rec.phase2_start =
                   Some(StartTime + rec.timestamps[Phase1Count])

\* the loop goes on only with fewer than 6 claps and less than 45 s of
\* Phase 2
LoopContinues ==
    cal_pc = "recording" =>
        /\ rec.detected_clap_count < TargetClaps
        /\ rec.current_phase = 2 =>
               \A i \in Phase1Count..Len(rec.timestamps) :
                   Phase2Elapsed(i) < Phase2MaxDuration

\* the latest sample is the first one read after 45 s of Phase 2
TimedOut ==
    /\ rec.current_phase = 2
    /\ Phase2Elapsed(Len(rec.timestamps)) >= Phase2MaxDuration
    /\ \A i \in Phase1Count..(Len(rec.timestamps) - 1) :
          Phase2Elapsed(i) < Phase2MaxDuration

\* the loop was left with clap number 6, at the time limit, or because the
\* stream could not be restarted as Phase 2 began
LoopLeft ==
    cal_pc \in {"analysis", "done"} =>
        \/ rec.detected_clap_count = TargetClaps
        \/ TimedOut
        \/ rec.current_phase = 2 /\ Len(rec.timestamps) = Phase1Count

\* Phase 2 is never left for Phase 1
PhaseNeverBack == rec.current_phase = 2 => rec'.current_phase = 2

----------------------------------------------------------------------------
(* The analysis: where the peaks come from *)

\* the read times of the gesture sub-sequence
GestureTimes ==
    SubSeq(rec.timestamps, Val(report).baseline_samples + 1,
           Len(rec.timestamps))

\* what detect_claps finds in the gesture sub-sequence with the first
\* threshold and with the lower one, max(1.3 * baselineMax, 20)
FirstPass ==
    detect_claps(Val(report).clap_phase_rms, GestureTimes,
                 DetectionThreshold(BaselineStats(Samples)))

SecondPass ==
    detect_claps(Val(report).clap_phase_rms, GestureTimes,
                 Max2((13 * SeqMax(Val(report).baseline_rms)) \div 10, 20))

\* the session maximum exceeds 1.5 * baselineMax
SessionMaxStandsOut ==
    10 * rec.max_rms > 15 * SeqMax(Val(report).baseline_rms)

\* C31: the analysis takes the peaks detected in real time if there is one;
\* otherwise those detect_claps finds in the gesture sub-sequence, and those
\* of the second try with max(1.3 * baselineMax, 20) only if the first try
\* found none and the session maximum exceeds 1.5 * baselineMax.
C31_PeakSource ==
    Recommended =>
        /\ rec.detected_claps_realtime # <<>> =>
               Val(report).claps = rec.detected_claps_realtime
        /\ rec.detected_claps_realtime = <<>> =>
               Val(report).claps =
                   IF FirstPass # <<>> THEN FirstPass
                   ELSE IF SessionMaxStandsOut THEN SecondPass
                   ELSE <<>>

\* no peak was detected in real time, the first try found none and the
\* second try found one
C31_Witness ==
    /\ Recommended
    /\ rec.detected_claps_realtime = <<>>
    /\ FirstPass = <<>>
    /\ SessionMaxStandsOut
    /\ Val(report).claps # <<>>

----------------------------------------------------------------------------
(* The main loop: the count of consecutive errors *)

\* what one iteration of the main loop does with consecutive_errors
CountsErrors ==
    main_pc' = "loop" =>
        /\ iteration' = "success" =>
              consecutive_errors' = 0 /\ ~restart_attempted'
        /\ iteration' = "failed" =>
              /\ restart_attempted' <=>
                    consecutive_errors + 1 = MaxConsecutiveErrors
              /\ consecutive_errors' =
                    IF restart_attempted' THEN 0 ELSE consecutive_errors + 1

\* the loop is left from an iteration that did not fail in this step: the
\* step that leaves it is the interrupt, which changes nothing else
OnlyInterruptLeaves ==
    main_pc' # main_pc =>
        /\ main_pc = "loop" /\ main_pc' = "stopped"
        /\ UNCHANGED <<consecutive_errors, iteration, raised_by>>

\* C32: consecutive_errors is always between 0 and 5; a successful iteration
\* resets it to 0, a failed one adds 1; the stream restart is attempted
\* exactly when it reaches 5, after which it is 0 whether or not the restart
\* succeeded; no failed iteration ends the loop.
C32_ErrorCounter ==
    /\ [](consecutive_errors \in 0..MaxConsecutiveErrors)
    /\ [][CountsErrors /\ OnlyInterruptLeaves]_<<vars, mainvars>>

\* the fifth error in a row: the restart failed and the counter is 0 again
C32_Witness ==
    /\ main_pc = "loop"
    /\ restart_attempted
    /\ ~restart_ok
    /\ consecutive_errors = 0

----------------------------------------------------------------------------
(* AudioStream (src/src/audio_engine.py): the two fields every method works
   on, and the PyAudio calls that may raise.  A stream handle is "open" or
   "closed"; a call that raises leaves the handle as it found it. *)

\* the most calls made on one AudioStream
MaxAudioCalls == 5

\* what PyAudio does during one call of a method: which of its calls succeed
AudioEnvs ==
    [pyaudio_ok : BOOLEAN, open_ok : BOOLEAN, activate_ok : BOOLEAN,
     read_ok : BOOLEAN, stop_ok : BOOLEAN, close_ok : BOOLEAN,
     terminate_ok : BOOLEAN]

\* the object the variables hold
AudioSelf == [pyaudio_instance |-> audio_pyaudio, stream |-> audio_stream]

\* try: self.stream.stop_stream(); self.stream.close()  except: pass
\* gives the handle afterwards
CloseExisting(handle, env) ==
    IF env.stop_ok /\ env.close_ok THEN Some("closed") ELSE handle

\* AudioStream.start_stream: [ret, self]
start_stream(self, env) ==
    IF self.pyaudio_instance = None /\ ~env.pyaudio_ok
    THEN [ret |-> FALSE, self |-> self]
    ELSE LET instance == Some("PyAudio")
             existing == IF self.stream # None
                         THEN CloseExisting(self.stream, env)
                         ELSE None
         IN  IF ~env.open_ok
             THEN [ret |-> FALSE,
                   self |-> [pyaudio_instance |-> instance,
                             stream |-> existing]]
             ELSE [ret |-> env.activate_ok,
                   self |-> [pyaudio_instance |-> instance,
                             stream |-> Some("open")]]

\* AudioStream.read_chunk: "data" for the array returned, "raised" otherwise
read_chunk(self, env) ==
    IF self.stream = None
    THEN "raised"
    ELSE IF Val(self.stream) = "open" /\ env.read_ok
         THEN "data"
         ELSE "raised"

\* AudioStream.stop_stream: self afterwards
stop_stream(self, env) ==
    LET stream1 == IF self.stream # None /\ env.stop_ok /\ env.close_ok
                   THEN None
                   ELSE self.stream
        terminated == self.pyaudio_instance # None /\ env.terminate_ok
        instance == IF terminated THEN None ELSE self.pyaudio_instance
        \* PyAudio.terminate closes the streams the instance still has
        stream2 == IF terminated /\ stream1 # None
                   THEN Some("closed")
                   ELSE stream1
    IN  [pyaudio_instance |-> instance, stream |-> stream2]

\* AudioStream.restart_stream: [ret, self]
restart_stream(self, env) ==
    start_stream([self EXCEPT !.stream = None], env)

\* AudioStream.is_stream_active (a closed handle is not active)
is_stream_active(self) ==
    self.stream # None /\ Val(self.stream) = "open"

BoolName(b) == IF b THEN "True" ELSE "False"

\* one call of a method, seen from outside
AudioCall(method, returned, self) ==
    /\ audio_calls < MaxAudioCalls
    /\ audio_calls' = audio_calls + 1
    /\ audio_call' = method
    /\ audio_result' = returned
    /\ audio_pre' = AudioSelf
    /\ audio_stopped' = (audio_call = "stop_stream")
    /\ audio_pyaudio' = self.pyaudio_instance
    /\ audio_stream' = self.stream

CallStartStream ==
    \E env \in AudioEnvs :
        LET r == start_stream(AudioSelf, env)
        IN  AudioCall("start_stream", BoolName(r.ret), r.self)

CallReadChunk ==
    \E env \in AudioEnvs :
        AudioCall("read_chunk", read_chunk(AudioSelf, env), AudioSelf)

CallStopStream ==
    \E env \in AudioEnvs :
        AudioCall("stop_stream", "None", stop_stream(AudioSelf, env))

CallRestartStream ==
    \E env \in AudioEnvs :
        LET r == restart_stream(AudioSelf, env)
        IN  AudioCall("restart_stream", BoolName(r.ret), r.self)

AudioNext ==
    \/ CallStartStream /\ UNCHANGED <<vars, peakvars, calvars, mainvars, exitvars>>
    \/ CallReadChunk /\ UNCHANGED <<vars, peakvars, calvars, mainvars, exitvars>>
    \/ CallStopStream /\ UNCHANGED <<vars, peakvars, calvars, mainvars, exitvars>>
    \/ CallRestartStream /\ UNCHANGED <<vars, peakvars, calvars, mainvars, exitvars>>

AudioStart ==
    /\ AudioIdle
    /\ DetectorIdle
    /\ PeakIdle
    /\ CalIdle
    /\ MainIdle
    /\ ExitIdle

SpecAudio ==
    AudioStart /\ [][AudioNext]_<<vars, peakvars, calvars, mainvars, audiovars>>

----------------------------------------------------------------------------
(* C34 *)

\* read_chunk raises whenever it finds no open stream, in particular right
\* after stop_stream
ReadNeedsOpenStream ==
    (audio_call = "read_chunk" /\ (audio_stopped \/ ~is_stream_active(audio_pre)))
        => audio_result = "raised"

\* stop_stream leaves the stream and the PyAudio instance released and the
\* stream inactive
StopReleases ==
    audio_call = "stop_stream"
        => /\ audio_stream = None
           /\ audio_pyaudio = None
           /\ ~is_stream_active(AudioSelf)

\* a second stop_stream in a row changes nothing
StopIdempotent ==
    (audio_call = "stop_stream" /\ audio_stopped) => AudioSelf = audio_pre

\* a start_stream that reports success has created the instance and an
\* open stream, whatever the calls before it were
StartRecreates ==
    (audio_call = "start_stream" /\ audio_result = "True")
        => /\ audio_pyaudio # None
           /\ is_stream_active(AudioSelf)

\* C34: over every sequence of start_stream, stop_stream, restart_stream and
\* read_chunk calls, read_chunk raises whenever no stream is open (before the
\* first successful start_stream and after stop_stream), after stop_stream
\* the stream is inactive and both the stream and the PyAudio instance are
\* released, a repeated stop_stream changes nothing, and a later successful
\* start_stream re-creates both.
C34_StreamLifecycle ==
    /\ ReadNeedsOpenStream
    /\ StopReleases
    /\ StopIdempotent
    /\ StartRecreates

----------------------------------------------------------------------------
(* The two entry points from the start of the audio stream to the return of
   main(): src/main.py lines 66-131 and src/calibrate.py lines 85-584.  Both
   work on the AudioStream held in audio_pyaudio and audio_stream. *)

\* the highest level heard in the microphone test, a test that fails included
TestPeaks == {0, 10, 30}

\* what an entry point leaves alone
ExitOther ==
    <<vars, peakvars, calvars, main_pc, action, iteration, wake_screen_calls,
      lock_screen_calls, restart_attempted, raised_by, restart_ok, audio_call,
      audio_result, audio_pre, audio_calls, audio_stopped>>

\* the AudioStream after a call
SetAudio(self) ==
    /\ audio_pyaudio' = self.pyaudio_instance
    /\ audio_stream' = self.stream

\* main() returns, or an exception leaves it
Leave(cause) ==
    /\ exit_pc' = "exited"
    /\ exit_cause' = cause

\* audio.stop_stream() called by the entry point
StopStream(env) ==
    /\ SetAudio(stop_stream(AudioSelf, env))
    /\ exit_stops' = exit_stops + 1

\* start_stream at the top of either entry point
\* (main.py lines 68-70, calibrate.py lines 88-90)
OpenStream ==
    /\ exit_pc = "start"
    /\ \E env \in AudioEnvs :
        LET r == start_stream(AudioSelf, env)
        IN  /\ SetAudio(r.self)
            /\ exit_started' = r.ret
            /\ IF r.ret
               THEN /\ exit_pc' = IF exit_prog = "main" THEN "setup" ELSE "test_prompt"
                    /\ UNCHANGED exit_cause
               ELSE Leave("start failed")
    /\ UNCHANGED <<exit_prog, exit_stops, exit_samples, consecutive_errors, ExitOther>>

\* main.py lines 72-79: the counters are set and the try block entered
MainEnterLoop ==
    /\ exit_prog = "main"
    /\ exit_pc = "setup"
    /\ exit_pc' = "loop"
    /\ consecutive_errors' = 0
    /\ UNCHANGED <<exit_prog, exit_started, exit_stops, exit_samples, exit_cause,
                   audio_pyaudio, audio_stream, ExitOther>>

\* main.py lines 72-77: Ctrl+C before the try block is entered
MainInterruptedEarly ==
    /\ exit_prog = "main"
    /\ exit_pc = "setup"
    /\ Leave("user interrupt")
    /\ UNCHANGED <<exit_prog, exit_started, exit_stops, exit_samples,
                   consecutive_errors, audio_pyaudio, audio_stream, ExitOther>>

\* main.py lines 81-125: one iteration of the loop; the action of a clap may
\* raise (line 99) as read_chunk may
MainLoopStep ==
    /\ exit_prog = "main"
    /\ exit_pc = "loop"
    /\ \E env \in AudioEnvs, action_raises \in BOOLEAN :
        IF read_chunk(AudioSelf, env) = "data" /\ ~action_raises
        THEN /\ consecutive_errors' = 0
             /\ UNCHANGED <<audio_pyaudio, audio_stream>>
        ELSE IF consecutive_errors + 1 >= MaxConsecutiveErrors
             THEN /\ SetAudio(restart_stream(AudioSelf, env).self)
                  /\ consecutive_errors' = 0
             ELSE /\ consecutive_errors' = consecutive_errors + 1
                  /\ UNCHANGED <<audio_pyaudio, audio_stream>>
    /\ UNCHANGED <<exit_prog, exit_pc, exit_started, exit_stops, exit_samples,
                   exit_cause, ExitOther>>

\* main.py lines 107-108 and 127-131: Ctrl+C inside the loop
MainShutDown ==
    /\ exit_prog = "main"
    /\ exit_pc = "loop"
    /\ \E env \in AudioEnvs : StopStream(env)
    /\ Leave("user interrupt")
    /\ UNCHANGED <<exit_prog, exit_started, exit_samples, consecutive_errors,
                   ExitOther>>

\* calibrate.py lines 100 and 194: input("Press ENTER ...") returns
CalPrompt ==
    /\ exit_prog = "calibrate"
    /\ exit_pc \in {"test_prompt", "proceed_prompt"}
    /\ exit_pc' = IF exit_pc = "test_prompt" THEN "mic_test" ELSE "stream_check"
    /\ UNCHANGED <<exit_prog, exit_started, exit_stops, exit_samples, exit_cause,
                   consecutive_errors, audio_pyaudio, audio_stream, ExitOther>>

\* calibrate.py lines 103-192: the microphone test and its verdict; a stream
\* that cannot be read ends the test with no sample (lines 147-149)
CalMicTest ==
    /\ exit_prog = "calibrate"
    /\ exit_pc = "mic_test"
    /\ \E test_max_rms \in TestPeaks, test_sound_detected \in BOOLEAN,
          env \in AudioEnvs :
        /\ ~is_stream_active(AudioSelf) => test_max_rms = 0
        /\ test_sound_detected => test_max_rms > 20
        /\ IF test_max_rms < 5
           THEN /\ StopStream(env)
                /\ Leave("microphone-test abort")
           ELSE /\ exit_pc' = IF test_max_rms < 20 \/ ~test_sound_detected
                              THEN "continue_prompt"
                              ELSE "proceed_prompt"
                /\ UNCHANGED <<exit_stops, exit_cause, audio_pyaudio, audio_stream>>
    /\ UNCHANGED <<exit_prog, exit_started, exit_samples, consecutive_errors,
                   ExitOther>>

\* calibrate.py lines 177-180 and 185-188: "Continue anyway? (y/n)"
CalContinuePrompt ==
    /\ exit_prog = "calibrate"
    /\ exit_pc = "continue_prompt"
    /\ \E response \in {"y", "n"}, env \in AudioEnvs :
        IF response # "y"
        THEN /\ StopStream(env)
             /\ Leave("microphone-test abort")
        ELSE /\ exit_pc' = "proceed_prompt"
             /\ UNCHANGED <<exit_stops, exit_cause, audio_pyaudio, audio_stream>>
    /\ UNCHANGED <<exit_prog, exit_started, exit_samples, consecutive_errors,
                   ExitOther>>

\* calibrate.py lines 227-231: the stream is checked before the recording;
\* a stream that is open may have stopped by itself
CalStreamCheck ==
    /\ exit_prog = "calibrate"
    /\ exit_pc = "stream_check"
    /\ \E env \in AudioEnvs, running \in BOOLEAN :
        IF is_stream_active(AudioSelf) /\ running
        THEN /\ exit_pc' = "recording"
             /\ UNCHANGED <<exit_cause, audio_pyaudio, audio_stream>>
        ELSE LET r == restart_stream(AudioSelf, env)
             IN  /\ SetAudio(r.self)
                 /\ IF r.ret
                    THEN /\ exit_pc' = "recording"
                         /\ UNCHANGED exit_cause
                    ELSE Leave("failed stream restart")
    /\ UNCHANGED <<exit_prog, exit_started, exit_stops, exit_samples,
                   consecutive_errors, ExitOther>>

\* calibrate.py lines 237-432 and 580-584: one iteration of the recording
\* loop; a read error is an unexpected error of the program
CalRecord ==
    /\ exit_prog = "calibrate"
    /\ exit_pc = "recording"
    /\ \E env \in AudioEnvs, env2 \in AudioEnvs, running \in BOOLEAN,
          ends \in BOOLEAN :
        LET active == is_stream_active(AudioSelf) /\ running
            r == IF active
                 THEN [ret |-> TRUE, self |-> AudioSelf]
                 ELSE restart_stream(AudioSelf, env)
        IN  IF ~r.ret
            THEN /\ SetAudio(r.self)
                 /\ exit_pc' = "stop"
                 /\ UNCHANGED <<exit_stops, exit_samples, exit_cause>>
            ELSE IF read_chunk(r.self, env) = "raised"
                 THEN /\ SetAudio(stop_stream(r.self, env2))
                      /\ exit_stops' = exit_stops + 1
                      /\ Leave("unexpected error")
                      /\ UNCHANGED exit_samples
                 ELSE /\ SetAudio(r.self)
                      /\ exit_samples' = IF exit_samples < MinSamples
                                         THEN exit_samples + 1
                                         ELSE exit_samples
                      /\ exit_pc' = IF ends THEN "stop" ELSE "recording"
                      /\ UNCHANGED <<exit_stops, exit_cause>>
    /\ UNCHANGED <<exit_prog, exit_started, consecutive_errors, ExitOther>>

\* calibrate.py lines 434-439: Ctrl+C inside the recording loop
CalRecordInterrupt ==
    /\ exit_prog = "calibrate"
    /\ exit_pc = "recording"
    /\ exit_pc' = "stop"
    /\ UNCHANGED <<exit_prog, exit_started, exit_stops, exit_samples, exit_cause,
                   consecutive_errors, audio_pyaudio, audio_stream, ExitOther>>

\* calibrate.py lines 442-578: the stream is stopped, then the recording is
\* analysed unless it is too short
CalStop ==
    /\ exit_prog = "calibrate"
    /\ exit_pc = "stop"
    /\ \E env \in AudioEnvs : StopStream(env)
    /\ Leave(IF exit_samples < MinSamples THEN "too short" ELSE "normal end")
    /\ UNCHANGED <<exit_prog, exit_started, exit_samples, consecutive_errors,
                   ExitOther>>

\* calibrate.py lines 100-194: Ctrl+C during the microphone test or at one of
\* its prompts; no handler of main() catches KeyboardInterrupt there
CalInterrupted ==
    /\ exit_prog = "calibrate"
    /\ exit_pc \in {"test_prompt", "mic_test", "continue_prompt", "proceed_prompt"}
    /\ Leave("user interrupt")
    /\ UNCHANGED <<exit_prog, exit_started, exit_stops, exit_samples,
                   consecutive_errors, audio_pyaudio, audio_stream, ExitOther>>

\* calibrate.py lines 580-584: input() raises EOFError at a prompt
CalUnexpected ==
    /\ exit_prog = "calibrate"
    /\ exit_pc \in {"test_prompt", "continue_prompt", "proceed_prompt"}
    /\ \E env \in AudioEnvs : StopStream(env)
    /\ Leave("unexpected error")
    /\ UNCHANGED <<exit_prog, exit_started, exit_samples, consecutive_errors,
                   ExitOther>>

ExitNext ==
    \/ OpenStream
    \/ MainEnterLoop
    \/ MainInterruptedEarly
    \/ MainLoopStep
    \/ MainShutDown
    \/ CalPrompt
    \/ CalMicTest
    \/ CalContinuePrompt
    \/ CalStreamCheck
    \/ CalRecord
    \/ CalRecordInterrupt
    \/ CalStop
    \/ CalInterrupted
    \/ CalUnexpected

\* either entry point about to start its stream
ExitStart ==
    /\ exit_prog \in {"main", "calibrate"}
    /\ exit_pc = "start"
    /\ exit_started = FALSE
    /\ exit_stops = 0
    /\ exit_samples = 0
    /\ exit_cause = "running"
    /\ AudioIdle
    /\ DetectorIdle
    /\ PeakIdle
    /\ CalIdle
    /\ MainIdle

SpecExit ==
    ExitStart /\ [][ExitNext]_<<vars, peakvars, calvars, mainvars, audiovars, exitvars>>

----------------------------------------------------------------------------
(* C33 *)

\* C33: in both entry points, once start_stream has succeeded, every way of
\* leaving the program (normal end of the recording, user interrupt,
\* microphone-test abort, failed stream restart, unexpected error) has
\* called stop_stream on the audio engine before main() returns.
C33_StopsBeforeLeaving ==
    (exit_pc = "exited" /\ exit_started) => exit_stops >= 1

====
